---- MODULE Spec2Model ----
(***************************************************************************)
(* State-machine model of the risk-governed execution path of deltaagent:  *)
(* the EmergencyHaltController (backend/safety/emergency_halt.py), the     *)
(* fill ledger (backend/api/trades.py, backend/execution/fills.py) and the *)
(* execution pipelines (backend/agent/core.py,                             *)
(* backend/strategy_templates/service.py).                                 *)
(*                                                                         *)
(* Several specifications share the variables, among them:                 *)
(*   SpecHalt  - controller instances over one shared store                *)
(*   SpecFill  - ingest_trade_fill calls running concurrently              *)
(*   SpecFillSeq - the same calls applied one after another                *)
(*   Spec      - the execution pipelines with the halt switch              *)
(***************************************************************************)
EXTENDS Integers, Sequences, FiniteSets, TLC

VARIABLES
    haltState,    \* controller -> its in-memory EmergencyHaltState (_state)
    haltPc,       \* controller -> "idle" | "persist" (inside set(), lock held)
    redisStore,   \* the blob under storage_key: NoPayload or a payload record
    clock,        \* wall clock, datetime.now(timezone.utc)
    lastSet,      \* history: the set() that returned last
    getObs,       \* history: the get() that returned last
    haltedSince,  \* history: controller -> set(halted=True) returned here and
                  \* no set(halted=False) was issued anywhere since
    trades,       \* the trades table: a sequence, Trade.id = index
    fills,        \* the trade_fills table: a sequence, TradeFill.id = index
    auditLog,     \* the audit_logs table, in insertion order
    ing,          \* the ingest_trade_fill calls so far, in arrival order
    proposals,    \* the proposals table: a sequence, Proposal.id = index
    executions,   \* the strategy_executions table, in insertion order
    lossStreak,   \* RiskGovernor._loss_streak: client -> recent pnl values
    runs,         \* the execution requests so far, each with its position
    riskCall,     \* the validate_order call that returned last, with its result
    policyCall,   \* the StrategyRegistry validation that returned last
    pureCall,     \* the call of a helper function that returned last
    agentMode,    \* client -> mode of its AgentContext and of its clients row
    autonomous_enabled,  \* settings.autonomous_enabled of the process
    riskParamsRow,  \* client -> risk_params of its clients row
    evals,        \* history: the execution-quality requests answered so far
    wallMs        \* wall clock of the execution-quality requests, milliseconds

haltVars == <<haltState, haltPc, redisStore, clock, lastSet, getObs, haltedSince>>

dbVars == <<trades, fills, auditLog>>

execVars == <<proposals, executions, lossStreak, runs>>

callVars == <<riskCall, policyCall, pureCall>>

agentVars == <<agentMode, autonomous_enabled>>

qualityVars == <<riskParamsRow, evals, wallMs>>

vars == <<haltState, haltPc, redisStore, clock, lastSet, getObs, haltedSince,
          trades, fills, auditLog, ing,
          proposals, executions, lossStreak, runs, riskCall, policyCall, pureCall,
          agentMode, autonomous_enabled, riskParamsRow, evals, wallMs>>

-----------------------------------------------------------------------------
(* Bounds and input domains                                                *)

MaxClock == 2

Ctrls == {"c1", "c2"}

Reasons == {"ops", "drill"}

Actors == {"admin", "oncall"}

MaxIngests == 2

Clients == {"A", "B"}

NoText == "<None>"

\* (Idempotency-Key header, payload.idempotency_key) as sent by the caller.
FillKeyInputs == {<<NoText, NoText>>, <<"k1", NoText>>, <<NoText, "k2">>, <<" ", "k1">>}

FillBrokerIds == {NoText, "b1", " b1 ", "b2"}

\* (authenticated client, trade_id) of a call; trade 2 belongs to client B.
FillTargets == {<<"A", 1>>, <<"B", 2>>, <<"A", 2>>}

\* payload.realized_pnl: absent, or a number (in cents).
NoPnl == [has |-> FALSE, v |-> 0]

Pnl(cents) == [has |-> TRUE, v |-> cents]

\* The fill events a broker reports (prices in cents; expected_price as a
\* fraction, d = 0 when the payload carries none).
FillEvents ==
    { [qty |-> 1, price |-> 1010, status |-> "partially_filled",
       pnl |-> NoPnl, expected |-> [n |-> 1000, d |-> 1]],
      [qty |-> 2, price |-> 990, status |-> "filled",
       pnl |-> Pnl(-60000), expected |-> [n |-> 0, d |-> 0]] }

-----------------------------------------------------------------------------
(* EmergencyHaltController                                                 *)

\* EmergencyHaltState(): the dataclass defaults.
DefaultHaltState ==
    [halted |-> FALSE, reason |-> "", updated_at |-> 0, updated_by |-> "system"]

NoPayload == [empty |-> TRUE]

\* History records before any set() / get() has returned.
\* (allOk: no write of any set() so far has failed.)
NoSet == [ctrl |-> "none", state |-> DefaultHaltState, writeOk |-> FALSE, allOk |-> TRUE]

NoGet ==
    [ctrl |-> "none", result |-> DefaultHaltState, before |-> DefaultHaltState,
     readOk |-> FALSE, after |-> NoSet, expectHalted |-> FALSE]

\* datetime.isoformat() / datetime.fromisoformat(): a string wrapping the instant.
IsoFormat(t) == <<"iso", t>>

FromIsoFormat(s) == s[2]

\* _persist_to_store: the JSON payload written under storage_key.
HaltPayload(st) ==
    [empty |-> FALSE,
     halted |-> st.halted,
     reason |-> st.reason,
     updated_at |-> IsoFormat(st.updated_at),
     updated_by |-> st.updated_by]

\* _refresh_from_store with a mutation: the stored payload is ignored.
RefreshedState_IgnoreStore(cur, raw, readOk) == cur

\* _refresh_from_store with a mutation: a failed read resets the state.
RefreshedState_ResetOnFailure(cur, raw, readOk) ==
    IF ~readOk THEN DefaultHaltState
    ELSE IF raw.empty THEN cur
    ELSE [halted |-> raw.halted,
          reason |-> raw.reason,
          updated_at |-> FromIsoFormat(raw.updated_at),
          updated_by |-> raw.updated_by]

\* _refresh_from_store: the in-memory state after one refresh. A failed read, or
\* an empty blob, leaves the state as it was.
RefreshedState(cur, raw, readOk) ==
    IF ~readOk THEN cur
    ELSE IF raw.empty THEN cur
    ELSE [halted |-> raw.halted,
          reason |-> raw.reason,
          updated_at |-> FromIsoFormat(raw.updated_at),
          updated_by |-> raw.updated_by]

\* What redis holds after _persist_to_store; a failed write is swallowed.
PersistedStore(store, st, writeOk) ==
    IF writeOk THEN HaltPayload(st) ELSE store

\* set(), first half: under the lock, replace _state; then await the store.
HaltSetBegin(c, halted, reason, actor) ==
    /\ haltPc[c] = "idle"
    /\ clock < MaxClock
    /\ clock' = clock + 1
    /\ haltState' = [haltState EXCEPT ![c] =
           [halted |-> halted, reason |-> reason,
            updated_at |-> clock + 1, updated_by |-> actor]]
    /\ haltPc' = [haltPc EXCEPT ![c] = "persist"]
    /\ haltedSince' = IF halted THEN haltedSince ELSE [d \in Ctrls |-> FALSE]
    /\ UNCHANGED <<redisStore, lastSet, getObs, dbVars, ing, execVars, callVars, agentVars, qualityVars>>

\* set(), second half: _persist_to_store, release the lock, return a copy.
HaltSetPersist(c, writeOk) ==
    /\ haltPc[c] = "persist"
    /\ redisStore' = PersistedStore(redisStore, haltState[c], writeOk)
    /\ haltPc' = [haltPc EXCEPT ![c] = "idle"]
    /\ lastSet' = [ctrl |-> c, state |-> haltState[c], writeOk |-> writeOk,
                   allOk |-> lastSet.allOk /\ writeOk]
    /\ haltedSince' = IF haltState[c].halted
                      THEN [haltedSince EXCEPT ![c] = TRUE]
                      ELSE haltedSince
    /\ UNCHANGED <<haltState, clock, getObs, dbVars, ing, execVars, callVars, agentVars, qualityVars>>

\* get(): under the lock, _refresh_from_store, return a copy of _state.
HaltGetEffect(c, readOk) ==
    /\ haltPc[c] = "idle"
    /\ haltState' = [haltState EXCEPT ![c] =
           RefreshedState(haltState[c], redisStore, readOk)]
    /\ getObs' = [ctrl |-> c,
                  result |-> haltState'[c],
                  before |-> haltState[c],
                  readOk |-> readOk,
                  after |-> lastSet,
                  expectHalted |-> haltedSince[c]]
    /\ UNCHANGED <<haltPc, redisStore, clock, lastSet, haltedSince>>

\* get() called on its own (GET /admin/emergency-halt, the status endpoints).
HaltGet(c, readOk) ==
    /\ HaltGetEffect(c, readOk)
    /\ UNCHANGED <<dbVars, ing, execVars, callVars, agentVars, qualityVars>>

-----------------------------------------------------------------------------
(* Prices: a float is modelled as an exact fraction n/d; d = 0 is None.    *)

NoPrice == [n |-> 0, d |-> 0]

Price(cents) == [n |-> cents, d |-> 1]

IsNoPrice(p) == p.d = 0

PriceEq(a, b) ==
    IF a.d = 0 \/ b.d = 0 THEN a.d = b.d ELSE a.n * b.d = b.n * a.d

-----------------------------------------------------------------------------
(* The database at start-up of the ledger: two trades the pipeline has     *)
(* recorded, one per client, and no fill rows.                             *)

InitTrades ==
    << [client |-> "A", action |-> "BUY", qty |-> 2, fill_price |-> NoPrice,
        order_id |-> "o1", status |-> "submitted", pnl |-> 0, instrument |-> "FOP"],
       [client |-> "B", action |-> "SELL", qty |-> 1, fill_price |-> Price(1000),
        order_id |-> "o2", status |-> "filled", pnl |-> 0, instrument |-> "FOP"] >>

InitDb ==
    /\ trades = InitTrades
    /\ fills = <<>>
    /\ auditLog = <<>>

-----------------------------------------------------------------------------
(* Fill ledger: backend/execution/fills.py and ingest_trade_fill           *)

\* str.upper() on the texts that occur in payloads.
Upper(s) ==
    CASE s = "buy" -> "BUY"
      [] s = "sell" -> "SELL"
      [] s = "es" -> "ES"
      [] s = "fop" -> "FOP"
      [] s = "fut" -> "FUT"
      [] OTHER -> s

\* compute_slippage_bps with the sign of SELL left as that of BUY.
ComputeSlippageBps_SellUnsigned(action, fillCents, expected) ==
    IF IsNoPrice(expected) \/ expected.n <= 0 THEN NoPrice
    ELSE [n |-> (fillCents * expected.d - expected.n) * 10000, d |-> expected.n]

\* compute_slippage_bps: None without a positive expected price; otherwise
\* ((fill - expected) / expected) * 10000, negated when action.upper() is SELL.
ComputeSlippageBps(action, fillCents, expected) ==
    IF IsNoPrice(expected) \/ expected.n <= 0 THEN NoPrice
    ELSE LET raw == [n |-> (fillCents * expected.d - expected.n) * 10000,
                     d |-> expected.n]
         IN IF Upper(action) = "SELL" THEN [n |-> 0 - raw.n, d |-> raw.d] ELSE raw

\* _normalize_optional_text: strip(); None when nothing is left.
NormalizeOptionalText(v) ==
    IF v = NoText THEN NoText
    ELSE IF v = " " \/ v = "" THEN NoText
    ELSE IF v = " b1 " THEN "b1"
    ELSE v

\* `idempotency_key_header or payload.idempotency_key`, then normalized.
EffectiveIdempotencyKey(header, payloadKey) ==
    NormalizeOptionalText(IF header = NoText \/ header = "" THEN payloadKey ELSE header)

\* The ids of the stored rows of (client, trade) whose field equals `value`.
RowsWith(rows, client, trade, field, value) ==
    {i \in DOMAIN rows :
        /\ rows[i].client = client
        /\ rows[i].trade = trade
        /\ rows[i][field] = value}

MaxOf(S) == CHOOSE x \in S : \A y \in S : y <= x

\* Mutation: the lookup by broker_fill_id is missing.
FindExistingFill_KeyOnly(rows, client, trade, key, bfid) ==
    LET byKey == IF key = NoText THEN {}
                 ELSE RowsWith(rows, client, trade, "ingest_idempotency_key", key)
    IN IF byKey /= {} THEN MaxOf(byKey) ELSE 0

\* _find_existing_fill: by idempotency key first, then by broker_fill_id;
\* newest first, limit 1. 0 stands for None.
FindExistingFill(rows, client, trade, key, bfid) ==
    LET byKey == IF key = NoText THEN {}
                 ELSE RowsWith(rows, client, trade, "ingest_idempotency_key", key)
        byBroker == IF bfid = NoText THEN {}
                    ELSE RowsWith(rows, client, trade, "broker_fill_id", bfid)
    IN IF byKey /= {} THEN MaxOf(byKey)
       ELSE IF byBroker /= {} THEN MaxOf(byBroker)
       ELSE 0

\* Mutation: no unique index on trade_fills.
UniqueViolation_NoIndex(rows, client, trade, key, bfid) == FALSE

\* The unique indexes uq_trade_fills_client_trade_idempotency and
\* uq_trade_fills_client_trade_broker_fill: an insert conflicts with a stored
\* row that has the same non-NULL key (NULLs never conflict).
UniqueViolation(rows, client, trade, key, bfid) ==
    \/ key /= NoText
       /\ RowsWith(rows, client, trade, "ingest_idempotency_key", key) /= {}
    \/ bfid /= NoText
       /\ RowsWith(rows, client, trade, "broker_fill_id", bfid) /= {}

RECURSIVE SumQty(_, _, _)
SumQty(rows, client, trade) ==
    IF rows = <<>> THEN 0
    ELSE LET r == Head(rows)
         IN (IF r.client = client /\ r.trade = trade THEN r.qty ELSE 0)
            + SumQty(Tail(rows), client, trade)

RECURSIVE SumNotional(_, _, _)
SumNotional(rows, client, trade) ==
    IF rows = <<>> THEN 0
    ELSE LET r == Head(rows)
         IN (IF r.client = client /\ r.trade = trade THEN r.qty * r.fill_price ELSE 0)
            + SumNotional(Tail(rows), client, trade)

\* Mutation: the weighted price ignores the fills stored earlier.
WeightedFillPrice_NewFillOnly(qty, cents, existingQty, existingNotional) ==
    Price(cents)

\* trade.fill_price after a fill: total notional / total qty over the fills
\* read before the insert plus the new one.
WeightedFillPrice(qty, cents, existingQty, existingNotional) ==
    LET total_qty == qty + existingQty
        total_notional == cents * qty + existingNotional
    IN IF total_qty > 0 THEN [n |-> total_notional, d |-> total_qty]
       ELSE Price(cents)

TradeExists(client, trade) ==
    trade \in DOMAIN trades /\ trades[trade].client = client

\* ingest_trade_fill up to its commit: the scope check, the pre-check for a
\* stored duplicate, the read of the stored fills, and the pending changes of
\* the session (the new row and the trade's new status, price and pnl).
IngestBegin(client, trade, header, payloadKey, rawBfid, qty, cents, status, pnl, expected) ==
    LET key == EffectiveIdempotencyKey(header, payloadKey)
        bfid == NormalizeOptionalText(rawBfid)
        base == [client |-> client, trade |-> trade, key |-> key, bfid |-> bfid,
                 qty |-> qty, price |-> cents, status |-> status, pnl |-> pnl,
                 expected |-> NoPrice, slippage |-> NoPrice,
                 loaded |-> [status |-> "", fill_price |-> NoPrice, pnl |-> 0],
                 newPrice |-> NoPrice,
                 pc |-> "done", outcome |-> "not_found", result |-> 0]
    IN
    /\ Len(ing) < MaxIngests
    /\ IF ~TradeExists(client, trade)
       THEN ing' = Append(ing, base)
       ELSE LET t == trades[trade]
                existing == FindExistingFill(fills, client, trade, key, bfid)
                exp == IF IsNoPrice(expected) THEN t.fill_price ELSE expected
            IN IF existing /= 0
               THEN ing' = Append(ing, [base EXCEPT !.outcome = "existing",
                                                    !.result = existing])
               ELSE ing' = Append(ing,
                       [base EXCEPT
                          !.pc = "commit",
                          !.outcome = "",
                          !.expected = exp,
                          !.slippage = ComputeSlippageBps(t.action, cents, exp),
                          !.loaded = [status |-> t.status,
                                      fill_price |-> t.fill_price,
                                      pnl |-> t.pnl],
                          !.newPrice = WeightedFillPrice(qty, cents,
                                          SumQty(fills, client, trade),
                                          SumNotional(fills, client, trade))])
    /\ UNCHANGED <<haltVars, dbVars, execVars, callVars, agentVars, qualityVars>>

\* The UPDATE the session flushes for the trade: the columns whose pending
\* value differs from the value loaded at the start of the call.
FlushedTrade(cur, c) ==
    [cur EXCEPT
       !.status = IF c.status /= c.loaded.status THEN c.status ELSE @,
       !.fill_price = IF PriceEq(c.newPrice, c.loaded.fill_price) THEN @ ELSE c.newPrice,
       !.pnl = IF c.pnl.has /\ c.pnl.v /= c.loaded.pnl THEN c.pnl.v ELSE @]

NewFillRow(c) ==
    [client |-> c.client, trade |-> c.trade,
     order_id |-> trades[c.trade].order_id,
     broker_fill_id |-> c.bfid,
     ingest_idempotency_key |-> c.key,
     status |-> c.status, qty |-> c.qty, fill_price |-> c.price,
     expected_price |-> c.expected, slippage_bps |-> c.slippage,
     realized_pnl |-> c.pnl]

\* ingest_trade_fill, the commit: either the insert and the trade update take
\* effect together, or the insert hits a unique index, the session rolls back
\* and the stored row is looked up again (409 if it cannot be found).
IngestCommit(i) ==
    /\ i \in DOMAIN ing
    /\ ing[i].pc = "commit"
    /\ LET c == ing[i]
       IN IF UniqueViolation(fills, c.client, c.trade, c.key, c.bfid)
          THEN LET existing == FindExistingFill(fills, c.client, c.trade, c.key, c.bfid)
               IN /\ ing' = [ing EXCEPT ![i] =
                        [c EXCEPT !.pc = "done",
                                  !.outcome = IF existing /= 0 THEN "existing"
                                              ELSE "conflict_409",
                                  !.result = existing]]
                  /\ UNCHANGED dbVars
          ELSE /\ fills' = Append(fills, NewFillRow(c))
               /\ trades' = [trades EXCEPT ![c.trade] = FlushedTrade(@, c)]
               /\ auditLog' = Append(auditLog,
                      [client |-> c.client, event_type |-> "trade_fill_ingested",
                       risk_rule |-> NoText, ref |-> c.trade])
               /\ ing' = [ing EXCEPT ![i] =
                      [c EXCEPT !.pc = "done", !.outcome = "created",
                                !.result = Len(fills) + 1]]
    /\ UNCHANGED <<haltVars, execVars, callVars, agentVars, qualityVars>>

-----------------------------------------------------------------------------
(* Strategy policy: backend/agent/strategy_registry.py                     *)

\* An optional number of a payload: absent, or a value.
NoNumber == [has |-> FALSE, v |-> 0]

Num(x) == [has |-> TRUE, v |-> x]

\* str.lower() on the tiers that occur in client rows.
Lower(s) ==
    CASE s = "Basic" -> "basic"
      [] s = "PRO" -> "pro"
      [] OTHER -> s

\* str.strip() on the strategy ids and expiry texts that occur in the inputs.
Strip(s) ==
    CASE s = " vertical_spread " -> "vertical_spread"
      [] s = " 20261125 " -> "20261125"
      [] s = " " -> ""
      [] OTHER -> s

IndexSymbols == {"ES", "NQ", "SI", "GC", "CL"}

StrategySpec(id, maxLegs, instruments, symbols, definedRisk) ==
    [strategy_id |-> id, max_legs |-> maxLegs, allowed_instruments |-> instruments,
     allowed_symbols |-> symbols, require_defined_risk |-> definedRisk]

BuiltinStrategyIds ==
    {"delta_rebalance_single", "vertical_spread", "iron_condor",
     "long_strangle", "short_strangle_defined"}

\* StrategyRegistry._specs
BuiltinSpecs(id) ==
    CASE id = "delta_rebalance_single" ->
             StrategySpec(id, 1, {"FOP", "FUT"}, IndexSymbols, FALSE)
      [] id = "vertical_spread" -> StrategySpec(id, 2, {"FOP"}, IndexSymbols, TRUE)
      [] id = "iron_condor" -> StrategySpec(id, 4, {"FOP"}, IndexSymbols, TRUE)
      [] id = "long_strangle" -> StrategySpec(id, 2, {"FOP"}, IndexSymbols, FALSE)
      [] id = "short_strangle_defined" ->
             StrategySpec(id, 4, {"FOP"}, IndexSymbols, TRUE)

\* `x or y` on optional texts.
OrText(x, y) == IF x = NoText \/ x = "" THEN y ELSE x

\* The payload itself seen as a leg.
PayloadAsLeg(p) ==
    [isDict |-> TRUE, action |-> p.action, symbol |-> p.symbol,
     instrument |-> p.instrument]

\* _extract_legs: the dict entries of a non-empty `legs` list, else the payload.
ExtractLegs(p) ==
    IF p.legs /= <<>> THEN SelectSeq(p.legs, LAMBDA leg : leg.isDict)
    ELSE <<PayloadAsLeg(p)>>

\* Mutation: any two legs count as a defined-risk structure.
IsDefinedRisk_AnyTwoLegs(legs) == Len(legs) >= 2

\* _is_defined_risk: at least two legs, with both a BUY and a SELL.
IsDefinedRisk(legs) ==
    /\ Len(legs) >= 2
    /\ \E i \in DOMAIN legs : Upper(OrText(legs[i].action, "")) = "BUY"
    /\ \E i \in DOMAIN legs : Upper(OrText(legs[i].action, "")) = "SELL"

\* _instrument_to_asset_class
InstrumentToAssetClass(instrument) ==
    LET normalized == Upper(instrument)
    IN IF normalized \in {"FOP", "OPT", "OPTION"} THEN "fop"
       ELSE IF normalized \in {"FUT", "FUTURE"} THEN "future"
       ELSE "unknown"

LegSymbol(leg, p) == Upper(OrText(leg.symbol, OrText(p.symbol, "")))

LegInstrument(leg, p) == Upper(OrText(leg.instrument, OrText(p.instrument, "FOP")))

\* No StrategySpec: the call raised.
NoSpec == StrategySpec(NoText, 0, {}, {}, FALSE)

\* return spec
Accepted(spec) ==
    [ok |-> TRUE, rule |-> NoText, reason |-> NoText,
     strategy_id |-> spec.strategy_id, spec |-> spec]

\* A check that returned without raising and returns no spec.
NoViolation ==
    [ok |-> TRUE, rule |-> NoText, reason |-> NoText, strategy_id |-> NoText,
     spec |-> NoSpec]

\* raise RiskViolation(rule, reason)
Violation(rule, reason) ==
    [ok |-> FALSE, rule |-> rule, reason |-> reason, strategy_id |-> NoText,
     spec |-> NoSpec]

MinOf(S) == CHOOSE x \in S : \A y \in S : x <= y

\* validate_trade_payload: the built-in allowlist.
ValidateTradePayload(p) ==
    LET strategy_id == Strip(OrText(p.strategy_id, "delta_rebalance_single"))
        legs == ExtractLegs(p)
    IN IF strategy_id \notin BuiltinStrategyIds
       THEN Violation("STRATEGY_POLICY", "unknown strategy_id")
       ELSE LET spec == BuiltinSpecs(strategy_id)
                bad == {i \in DOMAIN legs :
                          \/ LegSymbol(legs[i], p) \notin spec.allowed_symbols
                          \/ LegInstrument(legs[i], p) \notin spec.allowed_instruments}
            IN IF legs = <<>>
               THEN Violation("STRATEGY_POLICY", "no executable legs")
               ELSE IF Len(legs) > spec.max_legs
               THEN Violation("STRATEGY_POLICY", "max_legs")
               ELSE IF bad /= {}
               THEN IF LegSymbol(legs[MinOf(bad)], p) \notin spec.allowed_symbols
                    THEN Violation("STRATEGY_POLICY", "symbol not allowed")
                    ELSE Violation("STRATEGY_POLICY", "instrument not allowed")
               ELSE IF spec.require_defined_risk /\ ~IsDefinedRisk(legs)
               THEN Violation("STRATEGY_POLICY", "requires defined-risk structure")
               ELSE Accepted(spec)

\* The StrategySpec validate_trade_payload_with_profile builds from a profile.
ProfileSpec(profile) ==
    StrategySpec(Strip(profile.strategy_id), profile.max_legs,
                 {"FOP", "FUT", "OPT", "OPTION"},
                 IF profile.allowed_symbols = {} THEN {"ES", "NQ"}
                 ELSE {Upper(v) : v \in profile.allowed_symbols},
                 profile.require_defined_risk)

\* validate_trade_payload_with_profile: a strategy_profiles row and the tier of
\* the client (NoText when the client row is missing).
ValidateTradePayloadWithProfile(p, profile, client_tier) ==
    LET strategy_id == Strip(profile.strategy_id)
        spec == ProfileSpec(profile)
        allowed_symbols == spec.allowed_symbols
        allowed_asset_classes == {Lower(v) : v \in profile.allowed_asset_classes}
        tier_allowlist == {Lower(v) : v \in profile.tier_allowlist}
        legs == ExtractLegs(p)
        bad == {i \in DOMAIN legs :
                  \/ LegSymbol(legs[i], p) \notin allowed_symbols
                  \/ /\ allowed_asset_classes /= {}
                     /\ InstrumentToAssetClass(LegInstrument(legs[i], p))
                            \notin allowed_asset_classes}
    IN IF strategy_id = ""
       THEN Violation("STRATEGY_POLICY", "profile missing strategy_id")
       ELSE IF legs = <<>>
       THEN Violation("STRATEGY_POLICY", "no executable legs")
       ELSE IF Len(legs) > spec.max_legs
       THEN Violation("STRATEGY_POLICY", "max_legs")
       ELSE IF bad /= {}
       THEN IF LegSymbol(legs[MinOf(bad)], p) \notin allowed_symbols
            THEN Violation("STRATEGY_POLICY", "symbol not allowed")
            ELSE Violation("STRATEGY_POLICY", "asset class not allowed")
       ELSE IF /\ tier_allowlist /= {}
               /\ client_tier /= NoText /\ client_tier /= ""
               /\ Lower(client_tier) \notin tier_allowlist
       THEN Violation("STRATEGY_POLICY", "tier not allowed")
       ELSE IF spec.require_defined_risk /\ ~IsDefinedRisk(legs)
       THEN Violation("STRATEGY_POLICY", "requires defined-risk structure")
       ELSE Accepted(spec)

-----------------------------------------------------------------------------
(* Risk governor: backend/agent/risk.py. Deltas are in hundredths, money   *)
(* in cents, the time of day in minutes after 00:00 UTC.                   *)

\* RiskParameters(): delta_threshold 0.20, max_size 10, max_loss 5000.0,
\* max_open_positions 20.
DefaultRiskParameters ==
    [delta_threshold |-> 20, max_size |-> 10, max_loss |-> 500000,
     max_open_positions |-> 20]

\* RiskParameters.from_dict: an empty payload gives the defaults; a present
\* key overrides its default. A payload is a function on the keys it carries.
RiskParametersFromDict(payload) ==
    [k \in DOMAIN DefaultRiskParameters |->
        IF k \in DOMAIN payload THEN payload[k] ELSE DefaultRiskParameters[k]]

Abs(x) == IF x < 0 THEN 0 - x ELSE x

\* _is_market_hours: time(22, 0) <= now or now <= time(21, 0)
IsMarketHours(nowMinutes) == 22 * 60 <= nowMinutes \/ nowMinutes <= 21 * 60

\* Mutation: the oldest three entries are examined.
ThreeLosses_Oldest(losses) ==
    /\ Len(losses) >= 3
    /\ \A i \in 1..3 : losses[i] <= 0 - 50000

\* The last three entries of the streak are all losses of $500 or more.
ThreeLosses(losses) ==
    /\ Len(losses) >= 3
    /\ \A i \in (Len(losses) - 2)..Len(losses) : losses[i] <= 0 - 50000

\* Mutation: an order that reduces a breached delta is not exempt.
MaxNetDeltaViolated_NoExemption(net_delta, effective_delta, threshold) ==
    Abs(effective_delta) > threshold

\* `abs(effective_delta) > threshold and (abs(net_delta) <= threshold or
\* abs(effective_delta) >= abs(net_delta))`
MaxNetDeltaViolated(net_delta, effective_delta, threshold) ==
    /\ Abs(effective_delta) > threshold
    /\ \/ Abs(net_delta) <= threshold
       \/ Abs(effective_delta) >= Abs(net_delta)

\* Mutation: the size limit itself is refused.
MaxSizeViolated_AtLimit(qty, max_size) == qty >= max_size

\* `qty > params.max_size`
MaxSizeViolated(qty, max_size) == qty > max_size

\* Mutation: the market hours are examined before the order size.
ValidateOrder_HoursFirst(qty, net_delta, projected_delta, daily_pnl, open_legs, bid, ask, params, nowMinutes, losses) ==
    LET effective_delta == IF projected_delta.has THEN projected_delta.v ELSE net_delta
    IN IF MaxNetDeltaViolated(net_delta, effective_delta, params.delta_threshold)
       THEN Violation("MAX_NET_DELTA", "delta")
       ELSE IF ~IsMarketHours(nowMinutes)
       THEN Violation("MARKET_HOURS", "outside market hours")
       ELSE IF MaxSizeViolated(qty, params.max_size)
       THEN Violation("MAX_SINGLE_ORDER_SIZE", "qty")
       ELSE IF daily_pnl <= 0 - Abs(params.max_loss)
       THEN Violation("MAX_DAILY_LOSS", "daily_pnl")
       ELSE IF open_legs >= params.max_open_positions
       THEN Violation("MAX_OPEN_POSITIONS", "open_legs")
       ELSE IF /\ bid > 0 /\ ask > 0
               /\ (ask - bid) * 200 > 15 * (bid + ask)
       THEN Violation("SPREAD_LIMIT", "spread_ratio")
       ELSE IF ThreeLosses(losses)
       THEN Violation("CIRCUIT_BREAKER", "3 consecutive losses")
       ELSE NoViolation

\* validate_order: the first rule that fails, in the order of the code.
\* projected_delta is optional (NoNumber stands for None).
ValidateOrder(qty, net_delta, projected_delta, daily_pnl, open_legs, bid, ask, params, nowMinutes, losses) ==
    LET effective_delta == IF projected_delta.has THEN projected_delta.v ELSE net_delta
    IN IF MaxNetDeltaViolated(net_delta, effective_delta, params.delta_threshold)
       THEN Violation("MAX_NET_DELTA", "delta")
       ELSE IF MaxSizeViolated(qty, params.max_size)
       THEN Violation("MAX_SINGLE_ORDER_SIZE", "qty")
       ELSE IF daily_pnl <= 0 - Abs(params.max_loss)
       THEN Violation("MAX_DAILY_LOSS", "daily_pnl")
       ELSE IF open_legs >= params.max_open_positions
       THEN Violation("MAX_OPEN_POSITIONS", "open_legs")
       ELSE IF ~IsMarketHours(nowMinutes)
       THEN Violation("MARKET_HOURS", "outside market hours")
       ELSE IF /\ bid > 0 /\ ask > 0
               \* (ask - bid) / ((bid + ask) / 2) > 0.15
               /\ (ask - bid) * 200 > 15 * (bid + ask)
       THEN Violation("SPREAD_LIMIT", "spread_ratio")
       ELSE IF ThreeLosses(losses)
       THEN Violation("CIRCUIT_BREAKER", "3 consecutive losses")
       ELSE NoViolation

-----------------------------------------------------------------------------
(* The governor called on its own: register_trade_pnl and validate_order   *)

MaxPnls == 4

\* Trade results handed to register_trade_pnl (cents): a loss of exactly
\* $500 and one a cent smaller.
PnlInputs == {0 - 50000, 0 - 49999}

\* The arguments of a validate_order call.
RiskInputs ==
    [qty : {10, 11},
     net_delta : {0, 0 - 30},
     projected_delta : {NoNumber, Num(10), Num(25), Num(0 - 25)},
     daily_pnl : {0, 0 - 500000},
     open_legs : {1, 20},
     quote : {[bid |-> 1000, ask |-> 1020], [bid |-> 1000, ask |-> 1300]},
     now : {12 * 60, 21 * 60 + 30}]

NoRiskCall ==
    [called |-> FALSE, client |-> NoText,
     in |-> [qty |-> 0, net_delta |-> 0, projected_delta |-> NoNumber,
             daily_pnl |-> 0, open_legs |-> 0,
             quote |-> [bid |-> 0, ask |-> 0], now |-> 0],
     params |-> DefaultRiskParameters, losses |-> <<>>, out |-> NoViolation]

\* The results registered: either value for client A, losses of $500 for B.
PnlTargets == ({"A"} \X PnlInputs) \cup {<<"B", 0 - 50000>>}

\* register_trade_pnl: append, keep the last ten.
RegisteredPnl(streak, pnl) ==
    LET arr == Append(streak, pnl)
    IN IF Len(arr) > 10 THEN SubSeq(arr, Len(arr) - 9, Len(arr)) ELSE arr

RegisterTradePnl(client, pnl) ==
    /\ Len(lossStreak[client]) < MaxPnls
    /\ lossStreak' = [lossStreak EXCEPT ![client] = RegisteredPnl(@, pnl)]
    /\ UNCHANGED <<haltVars, dbVars, ing, proposals, executions, runs, callVars, agentVars, qualityVars>>

\* validate_order(client_id, order, ...) with RiskParameters(): it returns, or
\* raises the RiskViolation recorded in `out`. One call is observed.
ValidateOrderCall(client, in) ==
    /\ ~riskCall.called
    /\ riskCall' =
           [called |-> TRUE, client |-> client, in |-> in,
            params |-> DefaultRiskParameters,
            losses |-> lossStreak[client],
            out |-> ValidateOrder(in.qty, in.net_delta, in.projected_delta,
                                  in.daily_pnl, in.open_legs, in.quote.bid,
                                  in.quote.ask, DefaultRiskParameters, in.now,
                                  lossStreak[client])]
    /\ UNCHANGED <<haltVars, dbVars, ing, execVars, policyCall, pureCall, agentVars, qualityVars>>

-----------------------------------------------------------------------------
(* Tables and inputs of the execution pipelines                            *)

MaxRuns == 1

\* The controller instance of this application process (app.state.emergency_halt).
AppCtrl == "c1"

\* The clients table: A trades with a wide delta threshold (10.0), B keeps
\* the defaults (risk_params = {}).
ClientRows ==
    [A |-> [tier |-> "basic", mode |-> "confirmation",
            risk_params |-> [delta_threshold |-> 1000]],
     B |-> [tier |-> "pro", mode |-> "confirmation",
            risk_params |-> <<>>]]

\* The active strategy_profiles rows (the seeded single-leg profile).
StrategyProfileRows ==
    { [strategy_id |-> "delta_rebalance_single",
       allowed_asset_classes |-> {"future", "fop"},
       allowed_symbols |-> {"ES", "NQ", "SI", "GC", "CL"},
       max_legs |-> 1,
       require_defined_risk |-> FALSE,
       tier_allowlist |-> {"basic", "pro", "enterprise"},
       is_active |-> TRUE] }

\* select(StrategyProfile).where(strategy_id == ..., is_active): the rows found.
ActiveProfiles(strategy_id) ==
    {r \in StrategyProfileRows : r.strategy_id = strategy_id /\ r.is_active}

\* The strategy_templates table: one iron fly owned by client A.
StrategyTemplates ==
    << [client |-> "A", name |-> "fly", strategy_type |-> "iron_fly",
        underlying_symbol |-> "ES", max_contracts |-> 2] >>

\* A trade payload as the agent proposes it.
TradePayload(action, symbol, qty, strategy_id) ==
    [action |-> action, symbol |-> symbol, instrument |-> "FOP", qty |-> qty,
     strategy_id |-> strategy_id, legs |-> <<>>, delta_estimate |-> NoNumber,
     limit_price |-> NoNumber]

NoTradePayload == TradePayload("", "", 0, NoText)

PayOk == TradePayload("BUY", "ES", 1, "delta_rebalance_single")

PayBig == TradePayload("BUY", "ES", 11, NoText)

PayUnknownBig == TradePayload("SELL", "ES", 11, "totally_unknown")

\* The proposals table at start-up: pending proposals created by earlier
\* chats in confirmation mode.
InitProposals ==
    << [client |-> "A", trade_payload |-> PayOk, status |-> "pending"],
       [client |-> "A", trade_payload |-> PayUnknownBig, status |-> "pending"],
       [client |-> "A", trade_payload |-> PayBig, status |-> "pending"] >>

\* (authenticated client, proposal id) of the approve and reject requests;
\* the proposals belong to client A.
ApproveTargets == {<<"A", 1>>, <<"A", 2>>, <<"A", 3>>, <<"B", 1>>}

RejectTargets == {<<"A", 1>>, <<"B", 1>>}

\* (authenticated client, template id) of the execute requests.
TemplateTargets == {<<"A", 1>>, <<"B", 1>>}

\* What the broker and the clock show while an order is validated:
\* net delta, open legs (sum of |qty| over positions), bid, ask (cents),
\* minutes after 00:00 UTC.
MarketSnapshots ==
    { [net_delta |-> 0, open_legs |-> 0, bid |-> 1000, ask |-> 1050, now |-> 12 * 60],
      [net_delta |-> 0, open_legs |-> 0, bid |-> 1000, ask |-> 1050, now |-> 21 * 60 + 30],
      [net_delta |-> 0, open_legs |-> 20, bid |-> 1000, ask |-> 1300, now |-> 12 * 60] }

\* A broker response to submit_order / submit_combo_order; ok = FALSE is a
\* BrokerOrderError.
NoOrder ==
    [ok |-> FALSE, order_id |-> NoText, status |-> "", fill_price |-> NoNumber,
     expected_price |-> NoNumber, broker_fill_id |-> NoText]

OrderResult(status, fill_price, expected_price, broker_fill_id) ==
    [ok |-> TRUE, order_id |-> NoText, status |-> status, fill_price |-> fill_price,
     expected_price |-> expected_price, broker_fill_id |-> broker_fill_id]

\* submit_order results reach the agent as order_id, status and fill_price only.
BrokerOrderResults ==
    { NoOrder,
      OrderResult("filled", Num(1025), NoNumber, NoText),
      OrderResult("submitted", NoNumber, NoNumber, NoText) }

BrokerComboResults ==
    { NoOrder,
      OrderResult("filled", Num(320), Num(320), "mock-combo-fill"),
      OrderResult("submitted", NoNumber, NoNumber, NoText) }

\* The order id the broker hands out for the n-th request.
BrokerOrderIds == <<"r1", "r2", "r3", "r4">>

\* resolve_strategy_template as seen by the execution: it fails (ValueError),
\* or yields the contracts and the estimated net premium (cents).
ResolveOutcomes ==
    { [ok |-> FALSE, contracts |-> 0, premium |-> 0],
      [ok |-> TRUE, contracts |-> 1, premium |-> 320],
      [ok |-> TRUE, contracts |-> 3, premium |-> 320] }

\* The open positions rows of a client and the time, as _enforce_risk reads them.
TemplateSnapshots ==
    { [open_legs |-> 0, now |-> 12 * 60],
      [open_legs |-> 0, now |-> 21 * 60 + 30] }

-----------------------------------------------------------------------------
(* Single-leg execution: TradingAgent.approve_proposal, reject_proposal    *)
(* and _execute_trade (backend/agent/core.py)                              *)

\* A request as it arrives. Besides its position it carries what it has done
\* so far: the broker operations called (ops), what its emergency_halt.get()
\* calls returned and when (haltSeen), the daily P&L and open legs it was
\* validated against (seen), the validators run (checks),
\* the tables it inserted into (rows) and the audit events it wrote (audits).
NewRun(kind, client, target) ==
    [kind |-> kind, client |-> client, target |-> target,
     payload |-> NoTradePayload, params |-> DefaultRiskParameters,
     pc |-> "halt", error |-> "", rule |-> NoText, sawHalted |-> FALSE,
     haltSeen |-> <<>>, seen |-> [daily_pnl |-> 0, open_legs |-> 0],
     strategy_id |-> NoText, ops |-> {}, checks |-> <<>>, rows |-> {},
     audits |-> <<>>, order |-> NoOrder, tradeId |-> 0,
     contracts |-> 0, premium |-> 0, mode |-> "",
     decision |-> [tool_uses |-> <<>>, trade_kind |-> "none", trade |-> NoTradePayload]]

\* The callers of _execute_trade: approve_proposal and chat.
SingleLegKinds == {"approve", "chat"}

\* The message of the ValueError both halt gates raise.
HaltedError == "Trading is globally halted by emergency control"

\* raise: the request ends with this error.
Failed(r, error) == [r EXCEPT !.pc = "done", !.error = error]

\* _audit: one audit_log row, committed.
AuditRow(client, event_type, risk_rule, ref) ==
    [client |-> client, event_type |-> event_type, risk_rule |-> risk_rule, ref |-> ref]

Audited(r, event_type, risk_rule) ==
    [r EXCEPT !.audits = Append(@, [event_type |-> event_type, risk_rule |-> risk_rule])]

\* approve_proposal up to the call of _execute_trade: the proposal must exist,
\* belong to the caller and be pending.
ApproveArrive(client, pid) ==
    /\ LET r == NewRun("approve", client, pid)
       IN IF pid \notin DOMAIN proposals \/ proposals[pid].client /= client
          THEN runs' = Append(runs, Failed(r, "Proposal not found"))
          ELSE IF proposals[pid].status /= "pending"
          THEN runs' = Append(runs, Failed(r, "Proposal already resolved"))
          ELSE runs' = Append(runs,
                  [r EXCEPT !.payload = proposals[pid].trade_payload,
                            !.params = RiskParametersFromDict(ClientRows[client].risk_params)])
    /\ UNCHANGED <<haltVars, dbVars, ing, proposals, executions, lossStreak, callVars, agentVars, qualityVars>>

\* An approve_proposal request, while the process takes requests.
ApproveBegin(client, pid) == Len(runs) < MaxRuns /\ ApproveArrive(client, pid)

\* Mutation: reject_proposal looks the proposal up by id alone.
RejectResolve_AnyOwner(client, pid) ==
    /\ LET r == NewRun("reject", client, pid)
       IN IF pid \notin DOMAIN proposals
          THEN /\ runs' = Append(runs, Failed(r, "Proposal not found"))
               /\ UNCHANGED <<proposals, auditLog>>
          ELSE /\ proposals' = [proposals EXCEPT ![pid].status = "rejected"]
               /\ auditLog' = Append(auditLog,
                      AuditRow(client, "proposal_rejected", NoText, pid))
               /\ runs' = Append(runs,
                      [Audited(r, "proposal_rejected", NoText) EXCEPT !.pc = "done"])
    /\ UNCHANGED <<haltVars, trades, fills, ing, executions, lossStreak, callVars, agentVars, qualityVars>>

\* reject_proposal: no check of the current status.
RejectResolve(client, pid) ==
    /\ LET r == NewRun("reject", client, pid)
       IN IF pid \notin DOMAIN proposals \/ proposals[pid].client /= client
          THEN /\ runs' = Append(runs, Failed(r, "Proposal not found"))
               /\ UNCHANGED <<proposals, auditLog>>
          ELSE /\ proposals' = [proposals EXCEPT ![pid].status = "rejected"]
               /\ auditLog' = Append(auditLog,
                      AuditRow(client, "proposal_rejected", NoText, pid))
               /\ runs' = Append(runs,
                      [Audited(r, "proposal_rejected", NoText) EXCEPT !.pc = "done"])
    /\ UNCHANGED <<haltVars, trades, fills, ing, executions, lossStreak, callVars, agentVars, qualityVars>>

\* A reject_proposal request, while the process takes requests.
RejectProposal(client, pid) == Len(runs) < MaxRuns /\ RejectResolve(client, pid)

\* Mutation: the halt gate of _execute_trade lets every order through.
ExecuteTradeHaltBlocks_Never(state) == FALSE

\* `if state.halted:` in _execute_trade
ExecuteTradeHaltBlocks(state) == state.halted

\* _execute_trade, the halt gate: emergency_halt.get(), and when halted the
\* audit event and the error.
ExecuteTradeHaltGate(i, readOk) ==
    /\ i \in DOMAIN runs
    /\ runs[i].kind \in SingleLegKinds
    /\ runs[i].pc = "halt"
    /\ HaltGetEffect(AppCtrl, readOk)
    /\ LET state == haltState'[AppCtrl]
           r == [runs[i] EXCEPT !.sawHalted = state.halted,
                                !.haltSeen = Append(@, [halted |-> state.halted,
                                                        at |-> clock])]
       IN IF ExecuteTradeHaltBlocks(state)
          THEN /\ auditLog' = Append(auditLog,
                      AuditRow(r.client, "emergency_halt_blocked", NoText, 0))
               /\ runs' = [runs EXCEPT ![i] =
                      Failed(Audited(r, "emergency_halt_blocked", NoText),
                             HaltedError)]
          ELSE /\ runs' = [runs EXCEPT ![i] = [r EXCEPT !.pc = "validate"]]
               /\ UNCHANGED auditLog
    /\ UNCHANGED <<trades, fills, ing, proposals, executions, lossStreak, callVars, agentVars, qualityVars>>

RECURSIVE SumPnl(_, _)
\* sum(t.pnl for t in recent): the pnl of the client's trades.
SumPnl(rows, client) ==
    IF rows = <<>> THEN 0
    ELSE (IF Head(rows).client = client THEN Head(rows).pnl ELSE 0)
         + SumPnl(Tail(rows), client)

\* The strategy policy as _execute_trade applies it: the active profile of the
\* payload's strategy when there is one, else the built-in allowlist.
StrategyCheck(p, client) ==
    LET strategy_id == OrText(p.strategy_id, "delta_rebalance_single")
        found == ActiveProfiles(strategy_id)
    IN IF found /= {}
       THEN ValidateTradePayloadWithProfile(p, CHOOSE r \in found : TRUE,
                                            ClientRows[client].tier)
       ELSE ValidateTradePayload(p)

\* projected_delta = net_delta + direction * qty * delta_estimate (default 0.5)
ProjectedDelta(p, net_delta) ==
    LET order_delta_est == IF p.delta_estimate.has THEN p.delta_estimate.v ELSE 50
        direction == IF Upper(p.action) = "BUY" THEN 1 ELSE 0 - 1
    IN net_delta + direction * p.qty * order_delta_est

\* _execute_trade from the portfolio read to the end of the try block: the
\* registry, then the governor; a RiskViolation is audited with its rule and
\* raised again.
ExecuteTradeValidate(i, snap) ==
    /\ i \in DOMAIN runs
    /\ runs[i].kind \in SingleLegKinds
    /\ runs[i].pc = "validate"
    /\ LET r0 == [runs[i] EXCEPT !.ops = @ \cup {"get_positions", "get_market_data"}]
           p == r0.payload
           policy == StrategyCheck(p, r0.client)
           risk == ValidateOrder(p.qty, snap.net_delta,
                                 Num(ProjectedDelta(p, snap.net_delta)),
                                 SumPnl(trades, r0.client), snap.open_legs,
                                 snap.bid, snap.ask, r0.params, snap.now,
                                 lossStreak[r0.client])
           verdict == IF policy.ok THEN risk ELSE policy
           r == [r0 EXCEPT !.checks = IF policy.ok
                                      THEN <<"StrategyRegistry", "RiskGovernor">>
                                      ELSE <<"StrategyRegistry">>,
                           !.strategy_id = policy.strategy_id,
                           !.seen = [daily_pnl |-> SumPnl(trades, r0.client),
                                     open_legs |-> snap.open_legs]]
       IN IF ~verdict.ok
          THEN /\ auditLog' = Append(auditLog,
                      AuditRow(r.client, "risk_violation", verdict.rule, 0))
               /\ runs' = [runs EXCEPT ![i] =
                      Failed([Audited(r, "risk_violation", verdict.rule)
                                 EXCEPT !.rule = verdict.rule],
                             "RiskViolation")]
          ELSE /\ runs' = [runs EXCEPT ![i] = [r EXCEPT !.pc = "submit"]]
               /\ UNCHANGED auditLog
    /\ UNCHANGED <<haltVars, trades, fills, ing, proposals, executions, lossStreak, callVars, agentVars, qualityVars>>

\* Mutation: a run waits while another run of its client has an order at the
\* broker whose Trade is not committed yet.
ExecuteTradeSubmit_OneAtATime(i, result) ==
    /\ i \in DOMAIN runs
    /\ runs[i].kind \in SingleLegKinds
    /\ runs[i].pc = "submit"
    /\ \A j \in DOMAIN runs :
           (j /= i /\ runs[j].client = runs[i].client) => runs[j].pc /= "record"
    /\ LET r == [runs[i] EXCEPT !.ops = @ \cup {"submit_order"}]
       IN IF ~result.ok
          THEN runs' = [runs EXCEPT ![i] = Failed(r, "BrokerOrderError")]
          ELSE runs' = [runs EXCEPT ![i] =
                  [r EXCEPT !.pc = "record",
                            !.order = [result EXCEPT !.order_id = BrokerOrderIds[i]]]]
    /\ UNCHANGED <<haltVars, dbVars, ing, proposals, executions, lossStreak, callVars, agentVars, qualityVars>>

\* tools.submit_order: the order goes to the broker.
ExecuteTradeSubmit(i, result) ==
    /\ i \in DOMAIN runs
    /\ runs[i].kind \in SingleLegKinds
    /\ runs[i].pc = "submit"
    /\ LET r == [runs[i] EXCEPT !.ops = @ \cup {"submit_order"}]
       IN IF ~result.ok
          THEN runs' = [runs EXCEPT ![i] = Failed(r, "BrokerOrderError")]
          ELSE runs' = [runs EXCEPT ![i] =
                  [r EXCEPT !.pc = "record",
                            !.order = [result EXCEPT !.order_id = BrokerOrderIds[i]]]]
    /\ UNCHANGED <<haltVars, dbVars, ing, proposals, executions, lossStreak, callVars, agentVars, qualityVars>>

\* The Trade row _execute_trade builds from the payload and the order.
ExecutedTradeRow(r) ==
    [client |-> r.client, action |-> r.payload.action, qty |-> r.payload.qty,
     fill_price |-> IF r.order.fill_price.has THEN Price(r.order.fill_price.v)
                    ELSE NoPrice,
     order_id |-> r.order.order_id, status |-> r.order.status, pnl |-> 0,
     instrument |-> r.payload.instrument, timestamp |-> wallMs]

\* _execute_trade after the submission: the Trade row and the order_executed
\* audit event.
ExecuteTradeRecord(i) ==
    /\ i \in DOMAIN runs
    /\ runs[i].kind \in SingleLegKinds
    /\ runs[i].pc = "record"
    /\ trades' = Append(trades, ExecutedTradeRow(runs[i]))
    /\ auditLog' = Append(auditLog,
           AuditRow(runs[i].client, "order_executed", NoText, Len(trades) + 1))
    /\ runs' = [runs EXCEPT ![i] =
           [Audited(runs[i], "order_executed", NoText)
               EXCEPT !.rows = @ \cup {"Trade"},
                      !.tradeId = Len(trades) + 1,
                      !.pc = IF runs[i].kind = "approve" THEN "resolve" ELSE "done"]]
    /\ UNCHANGED <<haltVars, fills, ing, proposals, executions, lossStreak, callVars, agentVars, qualityVars>>

\* approve_proposal after _execute_trade returned: the proposal is approved.
ApproveResolve(i) ==
    /\ i \in DOMAIN runs
    /\ runs[i].kind = "approve"
    /\ runs[i].pc = "resolve"
    /\ proposals' = [proposals EXCEPT ![runs[i].target].status = "approved"]
    /\ auditLog' = Append(auditLog,
           AuditRow(runs[i].client, "proposal_approved", NoText, runs[i].target))
    /\ runs' = [runs EXCEPT ![i] =
           [Audited(runs[i], "proposal_approved", NoText) EXCEPT !.pc = "done"]]
    /\ UNCHANGED <<haltVars, trades, fills, ing, executions, lossStreak, callVars, agentVars, qualityVars>>

-----------------------------------------------------------------------------
(* Template execution: StrategyTemplateService.execute_strategy_template   *)
(* (backend/strategy_templates/service.py)                                 *)

\* estimate_expected_price: the limit price when positive, else the mid, else
\* the touch on the order's side, else the positive fallback, else None.
EstimateExpectedPrice(action, bid, ask, limit_price, fallback_price) ==
    IF limit_price.has /\ limit_price.v > 0 THEN Price(limit_price.v)
    ELSE IF bid > 0 /\ ask > 0 THEN [n |-> bid + ask, d |-> 2]
    ELSE IF Upper(action) = "BUY" /\ ask > 0 THEN Price(ask)
    ELSE IF Upper(action) = "SELL" /\ bid > 0 THEN Price(bid)
    ELSE IF fallback_price.has /\ fallback_price.v > 0 THEN Price(fallback_price.v)
    ELSE NoPrice

\* build_trade_fill_from_order: the TradeFill rows to add for an order response
\* (none without a positive fill price).
BuildTradeFillFromOrder(client, trade_id, order_id, action, qty, order_payload, expected_price) ==
    LET fill_price == IF order_payload.fill_price.has THEN order_payload.fill_price.v
                      ELSE 0
        expected == IF ~IsNoPrice(expected_price) THEN expected_price
                    ELSE IF order_payload.expected_price.has
                            /\ order_payload.expected_price.v /= 0
                    THEN Price(order_payload.expected_price.v)
                    ELSE NoPrice
    IN IF fill_price <= 0 THEN <<>>
       ELSE << [client |-> client, trade |-> trade_id, order_id |-> order_id,
                broker_fill_id |-> order_payload.broker_fill_id,
                ingest_idempotency_key |-> NoText,
                status |-> order_payload.status,
                qty |-> IF Abs(qty) > 1 THEN Abs(qty) ELSE 1,
                fill_price |-> fill_price,
                expected_price |-> expected,
                slippage_bps |-> ComputeSlippageBps(action, fill_price, expected),
                realized_pnl |-> NoPnl] >>

\* get_template: the id of the caller's template, 0 when there is none.
GetTemplate(client, tid) ==
    IF tid \in DOMAIN StrategyTemplates /\ StrategyTemplates[tid].client = client
    THEN tid ELSE 0

RECURSIVE PnlNewestFirst(_, _)
\* The pnl of the client's trades of the day, newest first.
PnlNewestFirst(rows, client) ==
    IF rows = <<>> THEN <<>>
    ELSE LET last == rows[Len(rows)]
         IN (IF last.client = client THEN <<last.pnl>> ELSE <<>>)
            \o PnlNewestFirst(SubSeq(rows, 1, Len(rows) - 1), client)

RECURSIVE SumSeq(_)
SumSeq(s) == IF s = <<>> THEN 0 ELSE Head(s) + SumSeq(Tail(s))

\* _enforce_risk: the error it raises, "" when it returns. The limits come
\* from client.risk_params with the defaults 5000 / 20 / 10.
EnforceRisk(risk_params, max_contracts, resolved_contracts, day_pnls, open_legs, nowMinutes) ==
    LET params == RiskParametersFromDict(risk_params)
        day_pnl == SumSeq(day_pnls)
        first3 == SubSeq(day_pnls, 1, IF Len(day_pnls) < 3 THEN Len(day_pnls) ELSE 3)
    IN IF ~IsMarketHours(nowMinutes)
       THEN "Order attempted outside configured market hours"
       ELSE IF day_pnl <= 0 - Abs(params.max_loss)
       THEN "Daily loss limit breached"
       ELSE IF ThreeLosses(first3)
       THEN "Circuit breaker active"
       ELSE IF open_legs >= params.max_open_positions
       THEN "Max open positions reached"
       ELSE IF resolved_contracts > max_contracts
       THEN "Resolved contracts exceed template max"
       ELSE IF resolved_contracts > params.max_size
       THEN "Resolved contracts exceed client max_size"
       ELSE ""

\* GET /strategy-template/{id}: get_template, 404 when the caller has no
\* template of that id.
GetTemplateRequest(client, tid) ==
    /\ LET r == NewRun("get_template", client, tid)
       IN IF GetTemplate(client, tid) = 0
          THEN runs' = Append(runs, Failed(r, "Strategy template not found"))
          ELSE runs' = Append(runs, [r EXCEPT !.pc = "done"])
    /\ UNCHANGED <<haltVars, dbVars, ing, proposals, executions, lossStreak, callVars, agentVars, qualityVars>>

\* POST /strategy-template/{id}/resolve: get_template, then the broker's
\* chain and quotes; the preview is returned and nothing is stored.
ResolveTemplateRequest(client, tid, outcome) ==
    /\ LET r == NewRun("resolve_template", client, tid)
       IN IF GetTemplate(client, tid) = 0
          THEN runs' = Append(runs, Failed(r, "Strategy template not found"))
          ELSE IF ~outcome.ok
          THEN runs' = Append(runs,
                  Failed([r EXCEPT !.ops = @ \cup {"get_options_chain"}],
                         "resolution failed"))
          ELSE runs' = Append(runs,
                  [r EXCEPT !.ops = @ \cup {"get_options_chain", "get_market_data"},
                            !.contracts = outcome.contracts,
                            !.premium = outcome.premium,
                            !.pc = "done"])
    /\ UNCHANGED <<haltVars, dbVars, ing, proposals, executions, lossStreak, callVars, agentVars, qualityVars>>

\* execute_strategy_template is entered: the halt gate comes first.
TemplateArrive(client, tid) ==
    /\ runs' = Append(runs, NewRun("template", client, tid))
    /\ UNCHANGED <<haltVars, dbVars, ing, proposals, executions, lossStreak, callVars, agentVars, qualityVars>>

\* POST /strategy-template/{id}/execute arrives, while the process takes requests.
TemplateBegin(client, tid) == Len(runs) < MaxRuns /\ TemplateArrive(client, tid)

\* Mutation: _enforce_execution_controls never blocks.
TemplateHaltBlocks_Never(state) == FALSE

\* `if not state.halted: return` in _enforce_execution_controls
TemplateHaltBlocks(state) == state.halted

\* _enforce_execution_controls: emergency_halt.get(), and when halted the
\* audit event and the error.
TemplateHaltGate(i, readOk) ==
    /\ i \in DOMAIN runs
    /\ runs[i].kind = "template"
    /\ runs[i].pc = "halt"
    /\ HaltGetEffect(AppCtrl, readOk)
    /\ LET state == haltState'[AppCtrl]
           r == [runs[i] EXCEPT !.sawHalted = state.halted,
                                !.haltSeen = Append(@, [halted |-> state.halted,
                                                        at |-> clock])]
       IN IF TemplateHaltBlocks(state)
          THEN /\ auditLog' = Append(auditLog,
                      AuditRow(r.client, "emergency_halt_blocked", NoText, 0))
               /\ runs' = [runs EXCEPT ![i] =
                      Failed(Audited(r, "emergency_halt_blocked", NoText),
                             HaltedError)]
          ELSE /\ runs' = [runs EXCEPT ![i] = [r EXCEPT !.pc = "validate"]]
               /\ UNCHANGED auditLog
    /\ UNCHANGED <<trades, fills, ing, proposals, executions, lossStreak, callVars, agentVars, qualityVars>>

\* resolve_strategy_template, then get_template, the client and _enforce_risk.
\* A failure is a ValueError: nothing is audited.
TemplateResolveAndEnforce(i, outcome, snap) ==
    /\ i \in DOMAIN runs
    /\ runs[i].kind = "template"
    /\ runs[i].pc = "validate"
    /\ LET r == runs[i]
           tid == GetTemplate(r.client, r.target)
       IN IF tid = 0
          THEN runs' = [runs EXCEPT ![i] = Failed(r, "Strategy template not found")]
          ELSE IF ~outcome.ok
          THEN runs' = [runs EXCEPT ![i] =
                  Failed([r EXCEPT !.ops = @ \cup {"get_options_chain"}],
                         "resolution failed")]
          ELSE LET r1 == [r EXCEPT !.ops = @ \cup {"get_options_chain", "get_market_data"},
                                   !.contracts = outcome.contracts,
                                   !.premium = outcome.premium,
                                   !.checks = <<"_enforce_risk">>]
                   error == EnforceRisk(ClientRows[r.client].risk_params,
                                        StrategyTemplates[tid].max_contracts,
                                        outcome.contracts,
                                        PnlNewestFirst(trades, r.client),
                                        snap.open_legs, snap.now)
               IN IF error /= ""
                  THEN runs' = [runs EXCEPT ![i] = Failed(r1, error)]
                  ELSE runs' = [runs EXCEPT ![i] = [r1 EXCEPT !.pc = "submit"]]
    /\ UNCHANGED <<haltVars, dbVars, ing, proposals, executions, lossStreak, callVars, agentVars, qualityVars>>

\* broker.submit_combo_order(symbol, legs, qty, "LMT", premium, "BUY")
TemplateSubmit(i, result) ==
    /\ i \in DOMAIN runs
    /\ runs[i].kind = "template"
    /\ runs[i].pc = "submit"
    /\ LET r == [runs[i] EXCEPT !.ops = @ \cup {"submit_combo_order"}]
       IN IF ~result.ok
          THEN runs' = [runs EXCEPT ![i] = Failed(r, "BrokerOrderError")]
          ELSE runs' = [runs EXCEPT ![i] =
                  [r EXCEPT !.pc = "record",
                            !.order = [result EXCEPT !.order_id = BrokerOrderIds[i]]]]
    /\ UNCHANGED <<haltVars, dbVars, ing, proposals, executions, lossStreak, callVars, agentVars, qualityVars>>

\* _safe_float(fill_price): 0.0 for None.
SafeFloat(x) == IF x.has THEN x.v ELSE 0

\* The rows of a template execution, committed together, and the
\* strategy_template_executed audit event.
TemplateRecord(i) ==
    /\ i \in DOMAIN runs
    /\ runs[i].kind = "template"
    /\ runs[i].pc = "record"
    /\ LET r == runs[i]
           template == StrategyTemplates[r.target]
           avg_fill_price == SafeFloat(r.order.fill_price)
           trade == [client |-> r.client, action |-> "BUY", qty |-> r.contracts,
                     fill_price |-> Price(avg_fill_price),
                     order_id |-> r.order.order_id, status |-> r.order.status,
                     pnl |-> 0, instrument |-> "BAG"]
           trade_id == Len(trades) + 1
           expected_price == EstimateExpectedPrice("BUY", 0, 0, Num(r.premium),
                                                   r.order.expected_price)
           fill == BuildTradeFillFromOrder(r.client, trade_id, r.order.order_id,
                                           "BUY", r.contracts, r.order, expected_price)
       IN /\ executions' = Append(executions,
                 [client |-> r.client, template_id |-> r.target,
                  order_id |-> r.order.order_id, status |-> r.order.status,
                  avg_fill_price |-> avg_fill_price])
          /\ trades' = Append(trades, trade)
          /\ fills' = fills \o fill
          /\ auditLog' = Append(auditLog,
                 AuditRow(r.client, "strategy_template_executed", NoText,
                          Len(executions) + 1))
          /\ runs' = [runs EXCEPT ![i] =
                 [Audited(r, "strategy_template_executed", NoText)
                     EXCEPT !.rows = @ \cup {"StrategyExecution", "Trade"}
                                       \cup (IF fill = <<>> THEN {} ELSE {"TradeFill"}),
                            !.tradeId = trade_id,
                            !.pc = "done"]]
    /\ UNCHANGED <<haltVars, ing, proposals, lossStreak, callVars, agentVars, qualityVars>>

-----------------------------------------------------------------------------
(* Initial state and specifications                                        *)

InitHalt ==
    /\ haltState = [c \in Ctrls |-> DefaultHaltState]
    /\ haltPc = [c \in Ctrls |-> "idle"]
    /\ redisStore = NoPayload
    /\ clock = 0
    /\ lastSet = NoSet
    /\ getObs = NoGet
    /\ haltedSince = [c \in Ctrls |-> FALSE]

\* A leg of a payload's `legs` list; isDict = FALSE is an entry that is not a
\* dict.
Leg(action, symbol, instrument) ==
    [isDict |-> TRUE, action |-> action, symbol |-> symbol, instrument |-> instrument]

NotADict == [isDict |-> FALSE, action |-> NoText, symbol |-> NoText, instrument |-> NoText]

\* The `legs` lists of the payloads validated; an empty list makes the payload
\* its own single leg.
PolicyLegLists ==
    { <<>>,
      <<NotADict>>,
      <<Leg("BUY", "ES", "FOP"), Leg("SELL", "ES", "FOP")>>,
      <<Leg("buy", "es", "fop"), Leg("sell", NoText, NoText)>>,
      <<Leg("BUY", "ES", "FOP"), Leg("BUY", "ES", "FOP")>>,
      <<Leg("SELL", "ES", "FOP"), NotADict>>,
      <<Leg("BUY", "ES", "FOP"), Leg("SELL", "ES", "FUTURE")>>,
      <<Leg("BUY", "ES", "FOP"), Leg("SELL", "ZZ", "FOP")>>,
      <<Leg("BUY", "ES", "FOP"), Leg("SELL", "ES", "FOP"), Leg("BUY", "NQ", "FOP")>> }

PolicyPayloads ==
    { [TradePayload("BUY", sym, 1, id) EXCEPT !.instrument = ins, !.legs = legs] :
        sym \in {"ES", "ZZ"},
        id \in {NoText, "vertical_spread", " vertical_spread ", "long_strangle",
                "totally_unknown"},
        ins \in {NoText, "FUT", "SWAP"},
        legs \in PolicyLegLists }

\* Profiles as _execute_trade hands them over: the columns of an active
\* strategy_profiles row.
PolicyProfiles ==
    { [strategy_id |-> "vertical_spread", allowed_asset_classes |-> ac,
       allowed_symbols |-> syms, max_legs |-> 2, require_defined_risk |-> dr,
       tier_allowlist |-> tiers, is_active |-> TRUE] :
        ac \in {{}, {"fop"}, {"fop", "future"}},
        syms \in {{}, {"es"}},
        dr \in BOOLEAN,
        tiers \in {{}, {"PRO"}} }

\* client.tier, or None when the client row is missing.
PolicyTiers == {NoText, "", "basic", "pro", "PRO"}

NoProfile ==
    [strategy_id |-> "", allowed_asset_classes |-> {}, allowed_symbols |-> {},
     max_legs |-> 0, require_defined_risk |-> FALSE, tier_allowlist |-> {},
     is_active |-> FALSE]

NoPolicyCall ==
    [called |-> FALSE, path |-> "", payload |-> NoTradePayload,
     profile |-> NoProfile, client_tier |-> NoText, out |-> NoViolation]

\* validate_trade_payload(trade_payload): it returns the spec, or raises the
\* RiskViolation recorded in `out`. One call is observed.
ValidateTradePayloadCall(p) ==
    /\ ~policyCall.called
    /\ policyCall' =
           [called |-> TRUE, path |-> "builtin", payload |-> p,
            profile |-> NoProfile, client_tier |-> NoText,
            out |-> ValidateTradePayload(p)]
    /\ UNCHANGED <<haltVars, dbVars, ing, execVars, riskCall, pureCall, agentVars, qualityVars>>

\* validate_trade_payload_with_profile(trade_payload, profile, client_tier)
ValidateTradePayloadWithProfileCall(p, profile, client_tier) ==
    /\ ~policyCall.called
    /\ policyCall' =
           [called |-> TRUE, path |-> "profile", payload |-> p,
            profile |-> profile, client_tier |-> client_tier,
            out |-> ValidateTradePayloadWithProfile(p, profile, client_tier)]
    /\ UNCHANGED <<haltVars, dbVars, ing, execVars, riskCall, pureCall, agentVars, qualityVars>>

-----------------------------------------------------------------------------
(* The agent's modes and chat: TradingAgent.set_mode and TradingAgent.chat  *)

\* The set_mode calls so far, each of which left one audit row (marked here
\* by the reference -1, which no other row carries).
ModeChanges ==
    Cardinality({k \in DOMAIN auditLog :
                   /\ auditLog[k].event_type \in {"mode_changed", "autonomous_blocked"}
                   /\ auditLog[k].ref = 0 - 1})

\* set_mode: refused with an audit row while autonomous mode is disabled by
\* the settings; otherwise the context and the clients row take the mode.
SetMode(client, mode) ==
    /\ ModeChanges < MaxRuns
    /\ IF mode = "autonomous" /\ ~autonomous_enabled
       THEN /\ auditLog' = Append(auditLog,
                   AuditRow(client, "autonomous_blocked", NoText, 0 - 1))
            /\ UNCHANGED agentMode
       ELSE /\ agentMode' = [agentMode EXCEPT ![client] = [context |-> mode, row |-> mode]]
            /\ auditLog' = Append(auditLog, AuditRow(client, "mode_changed", NoText, 0 - 1))
    /\ UNCHANGED <<haltVars, trades, fills, ing, execVars, callVars, autonomous_enabled, qualityVars>>

\* What _decide returns: the tools the model asked for on the way, and the
\* trade of the decision (None, an empty dict, or a payload).
ChatDecisions ==
    [tool_uses : {<<>>, <<"get_market_data", "submit_order">>},
     trade_kind : {"none", "empty"}, trade : {NoTradePayload}]
    \cup [tool_uses : {<<>>, <<"get_market_data", "submit_order">>},
          trade_kind : {"payload"}, trade : {PayOk}]

\* The portfolio and quote an autonomous chat trade is validated against; the
\* context's parameters are the defaults, so only a hedge of a short delta
\* passes the delta rule.
ChatSnapshots ==
    { [net_delta |-> 0 - 60, open_legs |-> 0, bid |-> 1000, ask |-> 1050, now |-> 12 * 60],
      [net_delta |-> 0, open_legs |-> 0, bid |-> 1000, ask |-> 1050, now |-> 12 * 60] }

\* chat up to the portfolio read: an autonomous context is turned away while
\* autonomous mode is disabled.
ChatBegin(client) ==
    /\ Len(runs) < MaxRuns
    /\ LET r == NewRun("chat", client, 0)
       IN IF agentMode[client].context = "autonomous" /\ ~autonomous_enabled
          THEN /\ auditLog' = Append(auditLog,
                      AuditRow(client, "autonomous_blocked", NoText, 0))
               /\ runs' = Append(runs,
                      [Audited(r, "autonomous_blocked", NoText)
                          EXCEPT !.pc = "done", !.mode = "autonomous"])
          ELSE /\ runs' = Append(runs,
                      [r EXCEPT !.pc = "decide", !.ops = {"get_portfolio_greeks"}])
               /\ UNCHANGED auditLog
    /\ UNCHANGED <<haltVars, trades, fills, ing, proposals, executions, lossStreak, callVars, agentVars, qualityVars>>

\* Mutation: submit_order is never withheld from the model.
ToolBlocked_Never(mode, name) == FALSE

\* `if mode == "confirmation" and name == "submit_order"`: the tool is not run.
ToolBlocked(mode, name) == mode = "confirmation" /\ name = "submit_order"

\* chat from `mode = context.mode` to its branch on the mode: the tools of
\* the decision run, then confirmation mode stores a proposal for a trade and
\* any other mode hands the trade to _execute_trade.
ChatDecide(i, d) ==
    /\ i \in DOMAIN runs
    /\ runs[i].kind = "chat"
    /\ runs[i].pc = "decide"
    /\ LET mode == agentMode[runs[i].client].context
           ran == {d.tool_uses[k] : k \in {j \in DOMAIN d.tool_uses :
                                              ~ToolBlocked(mode, d.tool_uses[j])}}
           r == [runs[i] EXCEPT !.mode = mode, !.decision = d, !.ops = @ \cup ran]
           proposed == d.trade_kind = "payload"
           pid == Len(proposals) + 1
       IN IF mode = "confirmation" /\ proposed
          THEN /\ proposals' = Append(proposals,
                      [client |-> r.client, trade_payload |-> d.trade, status |-> "pending"])
               /\ auditLog' = Append(auditLog,
                      AuditRow(r.client, "agent_proposal_created", NoText, pid))
               /\ runs' = [runs EXCEPT ![i] =
                      [Audited(r, "agent_proposal_created", NoText)
                          EXCEPT !.pc = "done", !.target = pid,
                                 !.rows = @ \cup {"Proposal"}]]
          ELSE IF ~proposed
          THEN /\ auditLog' = Append(auditLog,
                      AuditRow(r.client, "agent_decision_no_trade", NoText, 0))
               /\ runs' = [runs EXCEPT ![i] =
                      [Audited(r, "agent_decision_no_trade", NoText) EXCEPT !.pc = "done"]]
               /\ UNCHANGED proposals
          ELSE /\ runs' = [runs EXCEPT ![i] = [r EXCEPT !.pc = "halt", !.payload = d.trade]]
               /\ UNCHANGED <<auditLog, proposals>>
    /\ UNCHANGED <<haltVars, trades, fills, ing, executions, lossStreak, callVars, agentVars, qualityVars>>

-----------------------------------------------------------------------------
(* Helper functions: compute_slippage_bps and the strategy template        *)
(* resolution of backend/strategy_templates/service.py                     *)

NoPureCall == [called |-> FALSE, fn |-> "", args |-> <<>>, out |-> <<>>]

PureReturn(fn, args, out) ==
    /\ ~pureCall.called
    /\ pureCall' = [called |-> TRUE, fn |-> fn, args |-> args, out |-> out]
    /\ UNCHANGED <<haltVars, dbVars, ing, execVars, riskCall, policyCall, agentVars, qualityVars>>

SlippageActions == {"BUY", "SELL", "sell"}

SlippageFills == {1010, 990}

\* Expected prices: unknown, 10.00, 0, negative, and the mid 10.025.
SlippageExpected == {NoPrice, Price(1000), Price(0), Price(0 - 1000), [n |-> 2005, d |-> 2]}

ComputeSlippageBpsCall(action, fill_price, expected_price) ==
    PureReturn("compute_slippage_bps",
               [action |-> action, fill_price |-> fill_price,
                expected_price |-> expected_price],
               ComputeSlippageBps(action, fill_price, expected_price))

Larger(a, b) == IF a >= b THEN a ELSE b

Smaller(a, b) == IF a <= b THEN a ELSE b

\* resolve_strategy_template, the sizing of the resolved structure, with the
\* contract count not capped at max_contracts.
SizeStructure_Uncapped(template, lower_strike, center_strike, upper_strike, estimated_net_premium, multiplier) ==
    LET contract_multiplier == IF multiplier.has /\ multiplier.v /= 0 THEN multiplier.v ELSE 50
        credit == Larger(estimated_net_premium, 0)
        max_width == Larger(center_strike - lower_strike, upper_strike - center_strike)
        max_loss_per_1 ==
            IF template.strategy_type = "iron_fly"
            THEN Larger(max_width - credit, 0) * contract_multiplier
            ELSE Larger((center_strike - lower_strike) - credit, 0) * contract_multiplier
        raw == template.max_risk_per_trade \div Larger(max_loss_per_1, 100)
        contracts == IF template.sizing_method = "risk_based" THEN Larger(1, raw) ELSE 1
        estimated_max_risk == max_loss_per_1 * contracts
    IN [ok |-> ~(estimated_max_risk > template.max_risk_per_trade),
        contracts |-> contracts, max_loss_per_1 |-> max_loss_per_1,
        estimated_max_risk |-> estimated_max_risk]

\* resolve_strategy_template, the sizing of the resolved structure (money in
\* cents, so the 1.0 under the division is 100): max loss of one structure,
\* the contract count, and the ValueError when the risk exceeds the maximum.
SizeStructure(template, lower_strike, center_strike, upper_strike, estimated_net_premium, multiplier) ==
    LET contract_multiplier == IF multiplier.has /\ multiplier.v /= 0 THEN multiplier.v ELSE 50
        credit == Larger(estimated_net_premium, 0)
        max_width == Larger(center_strike - lower_strike, upper_strike - center_strike)
        max_loss_per_1 ==
            IF template.strategy_type = "iron_fly"
            THEN Larger(max_width - credit, 0) * contract_multiplier
            ELSE Larger((center_strike - lower_strike) - credit, 0) * contract_multiplier
        raw == template.max_risk_per_trade \div Larger(max_loss_per_1, 100)
        sized == IF template.sizing_method = "risk_based" THEN Larger(1, raw) ELSE 1
        contracts == Smaller(sized, template.max_contracts)
        estimated_max_risk == max_loss_per_1 * contracts
    IN [ok |-> ~(estimated_max_risk > template.max_risk_per_trade),
        contracts |-> contracts, max_loss_per_1 |-> max_loss_per_1,
        estimated_max_risk |-> estimated_max_risk]

\* Templates as the schema admits them: max_risk_per_trade > 0 (3.00, 200.00
\* and 1000.00), max_contracts > 0.
SizingTemplates ==
    [strategy_type : {"iron_fly", "butterfly"},
     sizing_method : {"fixed_contracts", "risk_based"},
     max_risk_per_trade : {300, 20000, 100000},
     max_contracts : {1, 10}]

\* Wings of a structure centred at 5000.00, in cents.
SizingWings == {<<499500, 500500>>, <<499500, 501000>>}

\* Net premiums in cents: a debit, none, and credits up to the wing width.
SizingPremiums == {0 - 100, 0, 300, 499, 500}

SizingMultipliers == {NoNumber, Num(100)}

SizeStructureCall(template, wings, estimated_net_premium, multiplier) ==
    PureReturn("resolve_strategy_template",
               [template |-> template, lower_strike |-> wings[1],
                center_strike |-> 500000, upper_strike |-> wings[2],
                estimated_net_premium |-> estimated_net_premium,
                multiplier |-> multiplier],
               SizeStructure(template, wings[1], 500000, wings[2],
                             estimated_net_premium, multiplier))

\* min(strikes, key=lambda x: abs(x - target)): the first of the nearest.
NearestStrike(strikes, target) ==
    strikes[CHOOSE i \in DOMAIN strikes :
                \A j \in DOMAIN strikes :
                    \/ Abs(strikes[i] - target) < Abs(strikes[j] - target)
                    \/ (Abs(strikes[i] - target) = Abs(strikes[j] - target) /\ i <= j)]

SeqRange(seq) == {seq[i] : i \in DOMAIN seq}

\* _select_wing_strikes with the candidates of a side taken from all strikes.
SelectWingStrikes_AnySide(strikes, center_strike, lower_width, upper_width) ==
    LET lower_candidates == SelectSeq(strikes, LAMBDA s : s < center_strike)
        upper_candidates == SelectSeq(strikes, LAMBDA s : s > center_strike)
        lower_target == center_strike - Larger(lower_width, 0)
        upper_target == center_strike + Larger(upper_width, 0)
    IN IF lower_candidates = <<>> \/ upper_candidates = <<>>
       THEN [ok |-> FALSE, lower |-> 0, upper |-> 0]
       ELSE [ok |-> TRUE, lower |-> NearestStrike(strikes, lower_target),
             upper |-> NearestStrike(strikes, upper_target)]

\* _select_wing_strikes: ValueError unless there are strikes on both sides
\* of the center; otherwise the strike nearest to the target on each side.
SelectWingStrikes(strikes, center_strike, lower_width, upper_width) ==
    LET lower_candidates == SelectSeq(strikes, LAMBDA s : s < center_strike)
        upper_candidates == SelectSeq(strikes, LAMBDA s : s > center_strike)
        lower_target == center_strike - Larger(lower_width, 0)
        upper_target == center_strike + Larger(upper_width, 0)
    IN IF lower_candidates = <<>> \/ upper_candidates = <<>>
       THEN [ok |-> FALSE, lower |-> 0, upper |-> 0]
       ELSE [ok |-> TRUE, lower |-> NearestStrike(lower_candidates, lower_target),
             upper |-> NearestStrike(upper_candidates, upper_target)]

\* Strike lists: the sorted chain of the caller, chains with one side
\* missing, an empty chain, and an unsorted list.
WingStrikeLists ==
    { <<4900, 4950, 5000, 5050, 5100>>,
      <<5000, 5050, 5100>>,
      <<4900, 4950, 5000>>,
      <<4950, 5050>>,
      <<5000>>,
      <<>>,
      <<5100, 4900, 5050, 4950>> }

WingCenters == {5000, 4950}

\* Widths: tight, one strike, one and a half strikes, midway, negative.
WingWidths == {5, 50, 75, 0 - 10}

SelectWingStrikesCall(strikes, center_strike, lower_width, upper_width) ==
    PureReturn("_select_wing_strikes",
               [strikes |-> strikes, center_strike |-> center_strike,
                lower_width |-> lower_width, upper_width |-> upper_width],
               SelectWingStrikes(strikes, center_strike, lower_width, upper_width))

\* datetime.now(UTC).date(), as a day number: the 5th of November 2026, days
\* counted from the 31st of October 2026.
ExpiryToday == 5

\* _parse_expiry_date on the expiry texts of the chains below: the day number
\* of the date, the last day of the month for a six-digit text, or None.
ParseExpiryDate(raw) ==
    CASE raw = "20261101" -> Num(1)
      [] raw = "20261106" -> Num(6)
      [] raw = "2026-11-10" -> Num(10)
      [] raw = "ESZ6 20261120" -> Num(20)
      [] raw = "20261125" -> Num(25)
      [] raw = "2026/11/27" -> Num(27)
      [] raw = "202611" -> Num(30)
      [] raw = "20261210" -> Num(40)
      [] raw = "20261218" -> Num(48)
      [] raw = "202612" -> Num(61)
      [] OTHER -> NoNumber

RECURSIVE ExpiryMap(_, _)
\* The loop over the chain rows: the expiry texts in order of first
\* occurrence, each with its days to expiry; unparseable texts are skipped.
ExpiryMap(rows, acc) ==
    IF rows = <<>> THEN acc
    ELSE LET exp == Strip(Head(rows))
             exp_date == ParseExpiryDate(exp)
         IN IF (\E k \in DOMAIN acc : acc[k].exp = exp) \/ ~exp_date.has
            THEN ExpiryMap(Tail(rows), acc)
            ELSE ExpiryMap(Tail(rows),
                           Append(acc, [exp |-> exp, dte |-> exp_date.v - ExpiryToday]))

\* min(allowed, key=lambda item: abs(item[1] - midpoint)): the first of the
\* nearest, with the distances doubled to stay in integers.
NearestToMidpoint(allowed, dte_min, dte_max) ==
    allowed[CHOOSE i \in DOMAIN allowed :
                \A j \in DOMAIN allowed :
                    LET di == Abs(2 * allowed[i].dte - (dte_min + dte_max))
                        dj == Abs(2 * allowed[j].dte - (dte_min + dte_max))
                    IN di < dj \/ (di = dj /\ i <= j)]

\* sorted(items, key=dte): a stable sort.
SortedByDte(items) ==
    LET Rank(i) == Cardinality({j \in DOMAIN items :
                                   items[j].dte < items[i].dte
                                   \/ (items[j].dte = items[i].dte /\ j < i)}) + 1
    IN [k \in DOMAIN items |-> items[CHOOSE i \in DOMAIN items : Rank(i) = k]]

NoExpiry == [exp |-> "", dte |-> 0]

\* _select_expiry with the whole list of expiries in its error.
SelectExpiry_ListsAll(chain_rows, dte_min, dte_max) ==
    LET expiry_map == ExpiryMap(chain_rows, <<>>)
        allowed == SelectSeq(expiry_map, LAMBDA e : dte_min <= e.dte /\ e.dte <= dte_max)
    IN IF expiry_map = <<>>
       THEN [ok |-> FALSE, error |-> "No parseable expiry values in options chain",
             available |-> <<>>, selected |-> NoExpiry]
       ELSE IF allowed = <<>>
       THEN [ok |-> FALSE, error |-> "No expiry matched configured DTE range",
             available |-> SortedByDte(expiry_map), selected |-> NoExpiry]
       ELSE [ok |-> TRUE, error |-> "", available |-> <<>>,
             selected |-> NearestToMidpoint(allowed, dte_min, dte_max)]

\* _select_expiry: the expiry within [dte_min, dte_max] nearest to the
\* midpoint, or a ValueError that
\* lists the first eight expiries by days to expiry.
SelectExpiry(chain_rows, dte_min, dte_max) ==
    LET expiry_map == ExpiryMap(chain_rows, <<>>)
        allowed == SelectSeq(expiry_map, LAMBDA e : dte_min <= e.dte /\ e.dte <= dte_max)
    IN IF expiry_map = <<>>
       THEN [ok |-> FALSE, error |-> "No parseable expiry values in options chain",
             available |-> <<>>, selected |-> NoExpiry]
       ELSE IF allowed = <<>>
       THEN [ok |-> FALSE, error |-> "No expiry matched configured DTE range",
             available |-> SubSeq(SortedByDte(expiry_map), 1,
                                  Smaller(8, Len(expiry_map))),
             selected |-> NoExpiry]
       ELSE [ok |-> TRUE, error |-> "", available |-> <<>>,
             selected |-> NearestToMidpoint(allowed, dte_min, dte_max)]

\* Chains: the two expiries of the test, an unsorted chain with a repeated and
\* an unparseable expiry, nine expiries out of order, nothing parseable.
ExpiryChains ==
    { <<"20261125", "20261210">>,
      <<"20261210", " 20261125 ", "20261125", "n/a", "ESZ6 20261120">>,
      <<"202612", "20261218", "20261210", "202611", "2026/11/27", "20261125",
        "ESZ6 20261120", "2026-11-10", "20261106">>,
      <<"n/a", " ">>,
      <<"20261101", "202612">> }

\* DTE ranges (dte_min, dte_max), both >= 0 by the schema.
ExpiryRanges == {<<1, 5>>, <<2, 4>>, <<10, 40>>, <<0, 60>>, <<21, 24>>, <<30, 10>>}

SelectExpiryCall(chain_rows, dte_min, dte_max) ==
    PureReturn("_select_expiry",
               [chain_rows |-> chain_rows, dte_min |-> dte_min, dte_max |-> dte_max],
               SelectExpiry(chain_rows, dte_min, dte_max))

-----------------------------------------------------------------------------
(* The estimated P&L curve of a resolved structure: _estimate_pnl_curve     *)
(* (strikes, underlying, premium and pnl in cents)                          *)

\* round(x, 2) of an amount given in hundredths of a cent: the nearest cent,
\* a tie going to the even cent.
RoundToCents(x100) ==
    LET q == x100 \div 100
        rest == x100 % 100
    IN IF rest < 50 THEN q
       ELSE IF rest > 50 THEN q + 1
       ELSE IF q % 2 = 0 THEN q ELSE q + 1

\* points = [0.9, 0.95, 1.0, 1.05, 1.1], in percent.
CurveFactors == <<90, 95, 100, 105, 110>>

\* Mutation: the iron fly pays its premium instead of receiving it.
EstimatePnlCurve_PremiumPaid(underlying, lower, center, upper, premium, multiplier, contracts, strategy_type) ==
    [k \in DOMAIN CurveFactors |->
        LET s == underlying * CurveFactors[k]
            payoff == Larger(s - lower * 100, 0) - 2 * Larger(s - center * 100, 0)
                      + Larger(s - upper * 100, 0)
        IN [underlying |-> RoundToCents(s),
            pnl |-> RoundToCents((payoff - premium * 100) * multiplier * contracts)]]

\* _estimate_pnl_curve: five points around the underlying; s and the payoff
\* are carried in hundredths of a cent, since s = underlying * factor.
EstimatePnlCurve(underlying, lower, center, upper, premium, multiplier, contracts, strategy_type) ==
    [k \in DOMAIN CurveFactors |->
        LET s == underlying * CurveFactors[k]
            fly == Larger(lower * 100 - s, 0) - Larger(center * 100 - s, 0)
                   - Larger(s - center * 100, 0) + Larger(s - upper * 100, 0)
            payoff == Larger(s - lower * 100, 0) - 2 * Larger(s - center * 100, 0)
                      + Larger(s - upper * 100, 0)
        IN [underlying |-> RoundToCents(s),
            pnl |-> IF strategy_type = "iron_fly"
                    THEN RoundToCents((premium * 100 + fly) * multiplier * contracts)
                    ELSE RoundToCents((payoff - premium * 100) * multiplier * contracts)]]

\* float(center.get("multiplier") or 50.0)
ContractMultiplier(multiplier) ==
    IF multiplier.has /\ multiplier.v /= 0 THEN multiplier.v ELSE 50

\* resolve_strategy_template from the pricing reference to the curve: the
\* underlying falls back to the center strike, the structure is sized, and a
\* structure whose risk exceeds the maximum raises before any curve is made.
ResolveCurve(template, lower_strike, center_strike, upper_strike, estimated_net_premium, multiplier, underlying_price) ==
    LET underlying == IF underlying_price <= 0 THEN center_strike ELSE underlying_price
        sizing == SizeStructure(template, lower_strike, center_strike, upper_strike,
                                estimated_net_premium, multiplier)
    IN [ok |-> sizing.ok, contracts |-> sizing.contracts,
        max_loss_per_1 |-> sizing.max_loss_per_1,
        estimated_max_risk |-> sizing.estimated_max_risk,
        pnl_curve |-> IF ~sizing.ok THEN <<>>
                      ELSE EstimatePnlCurve(underlying, lower_strike, center_strike,
                                            upper_strike, estimated_net_premium,
                                            ContractMultiplier(multiplier),
                                            sizing.contracts, template.strategy_type)]

\* Templates with a maximum risk of 5000.00.
CurveTemplates ==
    [strategy_type : {"butterfly", "broken_wing_butterfly", "iron_fly"},
     sizing_method : {"fixed_contracts", "risk_based"},
     max_risk_per_trade : {500000},
     max_contracts : {1, 2}]

\* Wings around the center 5000.00: 50 wide on both sides, and the upper
\* wing at one and a half widths.
CurveWings == {<<495000, 505000>>, <<495000, 507500>>}

\* Net premiums in cents: -1.00, 3.20 and 30.00.
CurvePremiums == {0 - 100, 320, 3000}

\* underlying_price of the pricing reference: absent (0.0), 5000.00, 4980.00.
CurveUnderlyings == {0, 500000, 498000}

ResolveCurveCall(template, wings, estimated_net_premium, underlying_price) ==
    PureReturn("_estimate_pnl_curve",
               [template |-> template, lower_strike |-> wings[1],
                center_strike |-> 500000, upper_strike |-> wings[2],
                estimated_net_premium |-> estimated_net_premium,
                multiplier |-> NoNumber, underlying_price |-> underlying_price],
               ResolveCurve(template, wings[1], 500000, wings[2],
                            estimated_net_premium, NoNumber, underlying_price))

-----------------------------------------------------------------------------
(* Execution quality and auto-remediation: get_execution_quality of        *)
(* backend/api/trades.py, with backend/risk_defaults.py                    *)
(* Wall-clock times are milliseconds; slippage in basis points, coverage   *)
(* in percent, max_loss in cents, delta_threshold in hundredths.           *)

MaxEvals == 3

FILLED_STATUSES == {"filled", "partially_filled", "completed"}

\* ALERT_SEVERITY_SCORE.get(severity, 0)
AlertSeverityScore(severity) ==
    CASE severity = "warning" -> 1
      [] severity = "critical" -> 2
      [] OTHER -> 0

CONSERVATIVE_RISK_PRESET ==
    [delta_threshold |-> 10, max_size |-> 5, max_loss |-> 250000,
     max_open_positions |-> 10,
     execution_alert_slippage_warn_bps |-> 10,
     execution_alert_slippage_critical_bps |-> 20,
     execution_alert_latency_warn_ms |-> 2000,
     execution_alert_latency_critical_ms |-> 5000,
     execution_alert_fill_coverage_warn_pct |-> 85,
     execution_alert_fill_coverage_critical_pct |-> 70]

\* A stored timestamp text that is None.
NoIso == [has |-> FALSE, v |-> IsoFormat(0)]

DEFAULT_RISK_PARAMETERS ==
    [delta_threshold |-> 20, max_size |-> 10, max_loss |-> 500000,
     max_open_positions |-> 20,
     execution_alert_slippage_warn_bps |-> 15,
     execution_alert_slippage_critical_bps |-> 30,
     execution_alert_latency_warn_ms |-> 3000,
     execution_alert_latency_critical_ms |-> 8000,
     execution_alert_fill_coverage_warn_pct |-> 75,
     execution_alert_fill_coverage_critical_pct |-> 50,
     auto_remediation_enabled |-> FALSE,
     auto_remediation_warning_action |-> "none",
     auto_remediation_critical_action |-> "pause_autonomous",
     auto_remediation_cooldown_minutes |-> 20,
     auto_remediation_max_actions_per_hour |-> 2,
     auto_remediation_last_outcome |-> "idle",
     auto_remediation_last_reason |-> "",
     auto_remediation_last_action |-> NoText,
     auto_remediation_last_action_at |-> NoIso,
     auto_remediation_actions_last_hour |-> 0,
     auto_remediation_window_started_at |-> NoIso,
     auto_remediation_last_alert_id |-> NoText,
     auto_remediation_last_alert_severity |-> NoText]

\* dict(d) followed by d[key] = value for every key of upd.
DictUpdate(d, upd) ==
    [k \in DOMAIN d \cup DOMAIN upd |-> IF k \in DOMAIN upd THEN upd[k] ELSE d[k]]

\* merge_risk_parameters: the defaults, overridden by the keys of raw (the
\* coercions leave values of the right type as they are).
MergeRiskParameters(raw) == DictUpdate(DEFAULT_RISK_PARAMETERS, raw)

\* _parse_timestamp on a stored text
ParseTimestamp(value) == IF value.has THEN Num(FromIsoFormat(value.v)) ELSE NoNumber

\* _to_iso_or_none
ToIsoOrNone(value) == IF value.has THEN [has |-> TRUE, v |-> IsoFormat(value.v)] ELSE NoIso

\* _normalize_action
NormalizeAction(value) ==
    IF value = NoText THEN "none"
    ELSE IF value \in {"none", "apply_conservative", "pause_autonomous"} THEN value
    ELSE "none"

\* The where clauses on from_ts and to_ts.
InWindow(ts, from_ts, to_ts) ==
    /\ from_ts.has => ts >= from_ts.v
    /\ to_ts.has => ts <= to_ts.v

\* select(Trade).where(client_id == id, timestamp within the window)
WindowTrades(id, from_ts, to_ts) ==
    {t \in DOMAIN trades :
        trades[t].client = id /\ InWindow(trades[t].timestamp, from_ts, to_ts)}

\* select(TradeFill).where(client_id == id, trade_id in the trades found,
\* fill_timestamp within the window)
WindowFills(id, trade_ids, from_ts, to_ts) ==
    {f \in DOMAIN fills :
        /\ fills[f].client = id
        /\ fills[f].trade \in trade_ids
        /\ InWindow(fills[f].fill_timestamp, from_ts, to_ts)}

\* The backfill loop, with trades that have fill rows in the window included.
BackfilledTradeIds_IgnoringFills(trade_ids, fill_ids, backfill_missing) ==
    IF ~backfill_missing THEN {}
    ELSE {t \in trade_ids :
             /\ trades[t].status \in FILLED_STATUSES
             /\ ~IsNoPrice(trades[t].fill_price)
             /\ trades[t].qty > 0}

\* The backfill loop: trades without a fill row among the fills found, with a
\* filled status, a fill price and a positive quantity.
BackfilledTradeIds(trade_ids, fill_ids, backfill_missing) ==
    IF ~backfill_missing THEN {}
    ELSE {t \in trade_ids :
             /\ t \notin {fills[f].trade : f \in fill_ids}
             /\ trades[t].status \in FILLED_STATUSES
             /\ ~IsNoPrice(trades[t].fill_price)
             /\ trades[t].qty > 0}

RECURSIVE SumSlippage(_)
\* The sum of the slippages of a set of fill rows, as a fraction.
SumSlippage(fill_ids) ==
    IF fill_ids = {} THEN [n |-> 0, d |-> 1]
    ELSE LET f == CHOOSE x \in fill_ids : TRUE
             s == fills[f].slippage_bps
             rest == SumSlippage(fill_ids \ {f})
         IN [n |-> s.n * rest.d + rest.n * s.d, d |-> s.d * rest.d]

\* The fill rows of a trade that come first by (fill_timestamp, id).
FirstFillOf(t, fill_ids) ==
    CHOOSE f \in fill_ids :
        /\ fills[f].trade = t
        /\ \A g \in fill_ids :
               fills[g].trade = t =>
                   \/ fills[f].fill_timestamp < fills[g].fill_timestamp
                   \/ (fills[f].fill_timestamp = fills[g].fill_timestamp /\ f <= g)

RECURSIVE SumFirstFillLatency(_, _)
\* The sum over the trades of max(first fill time - trade time, 0).
SumFirstFillLatency(trade_ids, fill_ids) ==
    IF trade_ids = {} THEN 0
    ELSE LET t == CHOOSE x \in trade_ids : TRUE
             f == FirstFillOf(t, fill_ids)
         IN Larger(fills[f].fill_timestamp - trades[t].timestamp, 0)
                + SumFirstFillLatency(trade_ids \ {t}, fill_ids)

\* get_execution_quality, the metrics: the counts, the mean slippage and the
\* mean first-fill latency (None as NoPrice); the median is left out.
ExecutionMetrics(id, from_ts, to_ts, backfill_missing) ==
    LET trade_ids == WindowTrades(id, from_ts, to_ts)
        fill_ids == WindowFills(id, trade_ids, from_ts, to_ts)
        backfilled == BackfilledTradeIds(trade_ids, fill_ids, backfill_missing)
        with_slippage == {f \in fill_ids : ~IsNoPrice(fills[f].slippage_bps)}
        slippage_count == Cardinality(with_slippage) + Cardinality(backfilled)
        slippage_sum == SumSlippage(with_slippage)
        seen_trades == {fills[f].trade : f \in fill_ids}
        latency_count == Cardinality(seen_trades) + Cardinality(backfilled)
    IN [trades_total |-> Cardinality(trade_ids),
        trades_with_fills |-> Cardinality(seen_trades \cup backfilled),
        fill_events |-> Cardinality(fill_ids) + Cardinality(backfilled),
        backfilled_trades |-> Cardinality(backfilled),
        backfilled_trade_ids |-> backfilled,
        avg_slippage_bps |->
            IF slippage_count = 0 THEN NoPrice
            ELSE [n |-> slippage_sum.n, d |-> slippage_sum.d * slippage_count],
        avg_first_fill_latency_ms |->
            IF latency_count = 0 THEN NoPrice
            ELSE [n |-> SumFirstFillLatency(seen_trades, fill_ids), d |-> latency_count]]

\* _build_execution_alerts: the alerts in the order slippage, latency, fill
\* coverage. The floors 0.1 bps, 1 ms and 1 percent are kept by comparing in
\* tenths.
BuildExecutionAlerts(trades_total, trades_with_fills, avg_slippage_bps, avg_first_fill_latency_ms, risk_parameters) ==
    LET slippage_warn == Larger(10 * risk_parameters.execution_alert_slippage_warn_bps, 1)
        slippage_critical ==
            Larger(10 * risk_parameters.execution_alert_slippage_critical_bps, slippage_warn)
        latency_warn == Larger(10 * risk_parameters.execution_alert_latency_warn_ms, 10)
        latency_critical ==
            Larger(10 * risk_parameters.execution_alert_latency_critical_ms, latency_warn)
        fill_warn ==
            Smaller(Larger(risk_parameters.execution_alert_fill_coverage_warn_pct, 1), 100)
        fill_critical ==
            Smaller(Larger(risk_parameters.execution_alert_fill_coverage_critical_pct, 1),
                    fill_warn)
        slippage_alert ==
            IF ~IsNoPrice(avg_slippage_bps)
               /\ 10 * Abs(avg_slippage_bps.n) >= slippage_warn * avg_slippage_bps.d
            THEN << [id |-> "avg-slippage",
                     severity |-> IF 10 * Abs(avg_slippage_bps.n)
                                        >= slippage_critical * avg_slippage_bps.d
                                  THEN "critical" ELSE "warning"] >>
            ELSE <<>>
        latency_alert ==
            IF ~IsNoPrice(avg_first_fill_latency_ms)
               /\ 10 * avg_first_fill_latency_ms.n >= latency_warn * avg_first_fill_latency_ms.d
            THEN << [id |-> "first-fill-latency",
                     severity |-> IF 10 * avg_first_fill_latency_ms.n
                                        >= latency_critical * avg_first_fill_latency_ms.d
                                  THEN "critical" ELSE "warning"] >>
            ELSE <<>>
        coverage_alert ==
            IF trades_total > 0 /\ trades_with_fills * 100 < fill_warn * trades_total
            THEN << [id |-> "fill-coverage",
                     severity |-> IF trades_with_fills * 100 < fill_critical * trades_total
                                  THEN "critical" ELSE "warning"] >>
            ELSE <<>>
    IN slippage_alert \o latency_alert \o coverage_alert

NoAlert == [id |-> NoText, severity |-> NoText]

\* _pick_primary_alert: the first alert of the highest severity score.
PickPrimaryAlert(alerts) ==
    IF alerts = <<>> THEN NoAlert
    ELSE alerts[CHOOSE i \in DOMAIN alerts :
                    \A j \in DOMAIN alerts :
                        \/ AlertSeverityScore(alerts[i].severity)
                               > AlertSeverityScore(alerts[j].severity)
                        \/ /\ AlertSeverityScore(alerts[i].severity)
                                  = AlertSeverityScore(alerts[j].severity)
                           /\ i <= j]

\* _cooldown_remaining_seconds: int() of the seconds that remain, 0 when none.
CooldownRemainingSeconds(last_action_at, now, cooldown_minutes) ==
    IF ~last_action_at.has \/ cooldown_minutes <= 0 THEN 0
    ELSE LET remaining == cooldown_minutes * 60 * 1000 - (now - last_action_at.v)
         IN IF remaining > 0 THEN remaining \div 1000 ELSE 0

\* The pause_autonomous branch with the mode left unexamined.
PauseAutonomous_AnyMode(current_mode, alert) ==
    [next_mode |-> "confirmation", outcome |-> "executed",
     message |-> "Paused autonomous mode after alert."]

\* The pause_autonomous branch: the mode flips only from autonomous.
PauseAutonomous(current_mode, alert) ==
    IF current_mode = "autonomous"
    THEN [next_mode |-> "confirmation", outcome |-> "executed",
          message |-> "Paused autonomous mode after alert."]
    ELSE [next_mode |-> current_mode, outcome |-> "noop",
          message |-> "Autonomous mode is already paused."]

\* The apply_conservative branch: every key of the preset is written; the
\* action counts as executed when a stored value differed.
ApplyConservative(raw_risk_params) ==
    LET changed == \E key \in DOMAIN CONSERVATIVE_RISK_PRESET :
                       \/ key \notin DOMAIN raw_risk_params
                       \/ raw_risk_params[key] /= CONSERVATIVE_RISK_PRESET[key]
    IN [risk_params |-> DictUpdate(raw_risk_params, CONSERVATIVE_RISK_PRESET),
        outcome |-> IF changed THEN "executed" ELSE "noop",
        message |-> IF changed THEN "Applied conservative preset after alert."
                    ELSE "Conservative preset is already active."]

NoAuditDetails ==
    [alert_id |-> NoText, severity |-> NoText, action |-> "none", message |-> "",
     mode_before |-> "", mode_after |-> "", actions_last_hour |-> 0,
     max_actions_per_hour |-> 0, cooldown_minutes |-> 0, evaluated_at |-> IsoFormat(0)]

\* _evaluate_auto_remediation_policy: the status returned, the next mode, the
\* next risk parameters and the audit details (audited = they are not None).
\* Messages are kept without their figures.
EvaluateAutoRemediationPolicy(current_mode, raw_risk_params, merged_risk_params, alerts, now) ==
    LET enabled == merged_risk_params.auto_remediation_enabled
        cooldown_minutes == Larger(merged_risk_params.auto_remediation_cooldown_minutes, 0)
        max_actions_per_hour ==
            Larger(merged_risk_params.auto_remediation_max_actions_per_hour, 1)
        stored_window == ParseTimestamp(merged_risk_params.auto_remediation_window_started_at)
        reset == ~stored_window.has \/ now - stored_window.v >= 3600 * 1000
        actions_at_start ==
            IF reset THEN 0
            ELSE Larger(merged_risk_params.auto_remediation_actions_last_hour, 0)
        window_started_at == IF reset THEN Num(now) ELSE stored_window
        stored_action == NormalizeAction(merged_risk_params.auto_remediation_last_action)
        stored_action_at == ParseTimestamp(merged_risk_params.auto_remediation_last_action_at)
        remaining_at_start == CooldownRemainingSeconds(stored_action_at, now, cooldown_minutes)
        alert == PickPrimaryAlert(alerts)
        planned_action ==
            IF alert = NoAlert THEN "none"
            ELSE NormalizeAction(
                     IF alert.severity = "critical"
                     THEN merged_risk_params.auto_remediation_critical_action
                     ELSE merged_risk_params.auto_remediation_warning_action)
        paused == PauseAutonomous(current_mode, alert)
        preset == ApplyConservative(raw_risk_params)
        acting == /\ alert /= NoAlert /\ enabled /\ planned_action /= "none"
                  /\ ~(actions_at_start >= max_actions_per_hour)
                  /\ ~(remaining_at_start > 0)
        outcome ==
            IF alert = NoAlert THEN "no_alert"
            ELSE IF ~enabled THEN "disabled"
            ELSE IF planned_action = "none" THEN "no_action"
            ELSE IF actions_at_start >= max_actions_per_hour THEN "rate_limited"
            ELSE IF remaining_at_start > 0 THEN "cooldown"
            ELSE IF planned_action = "pause_autonomous" THEN paused.outcome
            ELSE IF planned_action = "apply_conservative" THEN preset.outcome
            ELSE "no_action"
        message ==
            IF alert = NoAlert THEN "No active execution alerts."
            ELSE IF ~enabled THEN "Auto-remediation is disabled."
            ELSE IF planned_action = "none" THEN "Alert has no configured remediation action."
            ELSE IF actions_at_start >= max_actions_per_hour
            THEN "Suppressed by hourly guardrail."
            ELSE IF remaining_at_start > 0 THEN "Suppressed by cooldown."
            ELSE IF planned_action = "pause_autonomous" THEN paused.message
            ELSE IF planned_action = "apply_conservative" THEN preset.message
            ELSE "Unsupported remediation action configured."
        next_mode ==
            IF acting /\ planned_action = "pause_autonomous" THEN paused.next_mode
            ELSE current_mode
        updated_risk_params ==
            IF acting /\ planned_action = "apply_conservative" THEN preset.risk_params
            ELSE raw_risk_params
        executed == outcome = "executed"
        actions_last_hour == IF executed THEN actions_at_start + 1 ELSE actions_at_start
        last_action == IF executed THEN planned_action ELSE stored_action
        last_action_at == IF executed THEN Num(now) ELSE stored_action_at
        persisted_last_action == IF last_action /= "none" THEN last_action ELSE NoText
    IN [status |->
            [enabled |-> enabled, active_alert_id |-> alert.id,
             active_alert_severity |-> alert.severity,
             planned_action |-> planned_action, outcome |-> outcome,
             message |-> message, cooldown_minutes |-> cooldown_minutes,
             cooldown_remaining_seconds |->
                 CooldownRemainingSeconds(last_action_at, now, cooldown_minutes),
             actions_last_hour |-> actions_last_hour,
             max_actions_per_hour |-> max_actions_per_hour,
             last_action |-> persisted_last_action, last_action_at |-> last_action_at],
        next_mode |-> next_mode,
        next_risk_params |->
            DictUpdate(updated_risk_params,
                [auto_remediation_actions_last_hour |-> actions_last_hour,
                 auto_remediation_window_started_at |-> ToIsoOrNone(window_started_at),
                 auto_remediation_last_action |-> persisted_last_action,
                 auto_remediation_last_action_at |-> ToIsoOrNone(last_action_at),
                 auto_remediation_last_alert_id |-> alert.id,
                 auto_remediation_last_alert_severity |-> alert.severity,
                 auto_remediation_last_outcome |-> outcome,
                 auto_remediation_last_reason |-> message]),
        audited |-> executed,
        audit_details |->
            IF executed
            THEN [alert_id |-> alert.id, severity |-> alert.severity,
                  action |-> planned_action, message |-> message,
                  mode_before |-> current_mode, mode_after |-> next_mode,
                  actions_last_hour |-> actions_last_hour,
                  max_actions_per_hour |-> max_actions_per_hour,
                  cooldown_minutes |-> cooldown_minutes,
                  evaluated_at |-> IsoFormat(now)]
            ELSE NoAuditDetails]

\* get_execution_quality(id, from, to, backfill_missing), called dt
\* milliseconds after the previous call: the metrics, the alerts, the policy,
\* and one commit of the client row with the audit row of an executed action.
GetExecutionQuality(id, request, dt) ==
    /\ Len(evals) < MaxEvals
    /\ LET now == wallMs + dt
           raw_risk_params == riskParamsRow[id]
           current_mode == agentMode[id].row
           merged_risk_params == MergeRiskParameters(raw_risk_params)
           metrics == ExecutionMetrics(id, request.from_ts, request.to_ts,
                                       request.backfill_missing)
           execution_alerts ==
               BuildExecutionAlerts(metrics.trades_total, metrics.trades_with_fills,
                                    metrics.avg_slippage_bps,
                                    metrics.avg_first_fill_latency_ms, merged_risk_params)
           result == EvaluateAutoRemediationPolicy(current_mode, raw_risk_params,
                                                   merged_risk_params, execution_alerts, now)
           persist == \/ result.next_mode /= current_mode
                      \/ result.next_risk_params /= raw_risk_params
       IN /\ wallMs' = now
          /\ agentMode' = IF persist THEN [agentMode EXCEPT ![id].row = result.next_mode]
                          ELSE agentMode
          /\ riskParamsRow' = IF persist
                              THEN [riskParamsRow EXCEPT ![id] = result.next_risk_params]
                              ELSE riskParamsRow
          /\ auditLog' =
                 IF persist /\ result.audited
                 THEN Append(auditLog,
                          [client |-> id,
                           event_type |-> "execution_auto_remediation_executed",
                           risk_rule |-> OrText(result.audit_details.alert_id, "unknown"),
                           ref |-> 0,
                           details |-> result.audit_details])
                 ELSE auditLog
          /\ evals' = Append(evals,
                 [client |-> id, request |-> request, now |-> now,
                  mode_before |-> current_mode, params_before |-> raw_risk_params,
                  metrics |-> metrics, alerts |-> execution_alerts,
                  status |-> result.status,
                  mode_after |-> agentMode'[id].row,
                  params_after |-> riskParamsRow'[id],
                  audit_rows |-> (Len(auditLog) + 1)..Len(auditLog')])
    /\ UNCHANGED <<haltVars, trades, fills, ing, execVars, callVars, autonomous_enabled>>

\* The trades of the metrics: filled with a fill row, filled without one,
\* submitted, partially filled with no quantity, completed without a price,
\* completed with late fill rows, and a trade of another client.
QualityTradeRows ==
    << [client |-> "A", timestamp |-> 1000, status |-> "filled",
        fill_price |-> Price(1000), qty |-> 2],
       [client |-> "A", timestamp |-> 2000, status |-> "filled",
        fill_price |-> Price(1000), qty |-> 1],
       [client |-> "A", timestamp |-> 3000, status |-> "submitted",
        fill_price |-> NoPrice, qty |-> 1],
       [client |-> "A", timestamp |-> 4000, status |-> "partially_filled",
        fill_price |-> Price(1000), qty |-> 0],
       [client |-> "A", timestamp |-> 5000, status |-> "completed",
        fill_price |-> NoPrice, qty |-> 1],
       [client |-> "A", timestamp |-> 6000, status |-> "completed",
        fill_price |-> Price(1000), qty |-> 3],
       [client |-> "B", timestamp |-> 2500, status |-> "filled",
        fill_price |-> Price(1000), qty |-> 1] >>

QualityFillRows ==
    << [client |-> "A", trade |-> 1, fill_timestamp |-> 1500, slippage_bps |-> Price(20)],
       [client |-> "A", trade |-> 6, fill_timestamp |-> 9000, slippage_bps |-> Price(100)],
       [client |-> "A", trade |-> 6, fill_timestamp |-> 9500, slippage_bps |-> NoPrice] >>

QualityRequest(from_ts, to_ts, backfill_missing) ==
    [from_ts |-> from_ts, to_ts |-> to_ts, backfill_missing |-> backfill_missing]

\* Requests with the time since the previous one: a second, two minutes, ten
\* minutes, half a second short of twenty minutes, twenty minutes, 59 minutes.
QualityTargets ==
    { <<QualityRequest(Num(10000), NoNumber, TRUE), 1000>>,
      <<QualityRequest(NoNumber, NoNumber, TRUE), 3540000>>,
      <<QualityRequest(NoNumber, NoNumber, TRUE), 600000>>,
      <<QualityRequest(NoNumber, NoNumber, TRUE), 1200000>>,
      <<QualityRequest(Num(0), Num(8000), TRUE), 120000>>,
      <<QualityRequest(Num(0), Num(8000), TRUE), 1199500>>,
      <<QualityRequest(NoNumber, NoNumber, FALSE), 1000>>,
      <<QualityRequest(Num(2000), Num(3000), FALSE), 1000>> }

\* risk_params of the tenant: the defaults with remediation enabled and a
\* warning action; the same with one action per hour, with and without a
\* cooldown; a tenant that set its own max_size of 2; empty (remediation
\* disabled).
QualityRiskParams ==
    { [auto_remediation_enabled |-> TRUE,
       auto_remediation_warning_action |-> "apply_conservative"],
      [auto_remediation_enabled |-> TRUE,
       auto_remediation_warning_action |-> "apply_conservative",
       auto_remediation_max_actions_per_hour |-> 1],
      [auto_remediation_enabled |-> TRUE,
       auto_remediation_warning_action |-> "apply_conservative",
       auto_remediation_cooldown_minutes |-> 0,
       auto_remediation_max_actions_per_hour |-> 1],
      [auto_remediation_enabled |-> TRUE,
       auto_remediation_warning_action |-> "apply_conservative",
       max_size |-> 2],
      <<>> }

InitAgent ==
    /\ agentMode = [c \in Clients |-> [context |-> "confirmation", row |-> "confirmation"]]
    /\ autonomous_enabled = FALSE

InitCalls ==
    /\ riskCall = NoRiskCall
    /\ policyCall = NoPolicyCall
    /\ pureCall = NoPureCall

InitExec ==
    /\ proposals = InitProposals
    /\ executions = <<>>
    /\ lossStreak = [c \in Clients |-> <<>>]
    /\ runs = <<>>

InitTenants ==
    /\ riskParamsRow = [c \in Clients |-> ClientRows[c].risk_params]
    /\ evals = <<>>
    /\ wallMs = 0

Init ==
    InitHalt /\ InitDb /\ ing = <<>> /\ InitExec /\ InitCalls /\ InitAgent /\ InitTenants

NextHalt ==
    \/ \E c \in Ctrls, h \in BOOLEAN, r \in Reasons, a \in Actors :
           HaltSetBegin(c, h, r, a)
    \/ \E c \in Ctrls, ok \in BOOLEAN : HaltSetPersist(c, ok)
    \/ \E c \in Ctrls, ok \in BOOLEAN : HaltGet(c, ok)

SpecHalt == Init /\ [][NextHalt]_vars

AllIngestsDone == \A i \in DOMAIN ing : ing[i].pc = "done"

\* Calls run concurrently: a new call may arrive while others await their commit.
NextFill ==
    \/ \E tg \in FillTargets, k \in FillKeyInputs, b \in FillBrokerIds, e \in FillEvents :
           IngestBegin(tg[1], tg[2], k[1], k[2], b,
                       e.qty, e.price, e.status, e.pnl, e.expected)
    \/ \E i \in 1..MaxIngests : IngestCommit(i)

SpecFill == Init /\ [][NextFill]_vars

\* Calls applied one after another, in arrival order.
NextFillSeq ==
    \/ /\ AllIngestsDone
       /\ \E tg \in FillTargets, k \in FillKeyInputs, b \in FillBrokerIds, e \in FillEvents :
              IngestBegin(tg[1], tg[2], k[1], k[2], b,
                          e.qty, e.price, e.status, e.pnl, e.expected)
    \/ \E i \in 1..MaxIngests : IngestCommit(i)

SpecFillSeq == Init /\ [][NextFillSeq]_vars

\* The risk governor of one process, fed with trade results and asked to
\* validate orders.
NextRisk ==
    \/ \E tg \in PnlTargets : RegisterTradePnl(tg[1], tg[2])
    \/ \E c \in Clients, in \in RiskInputs : ValidateOrderCall(c, in)

SpecRisk == Init /\ [][NextRisk]_vars

\* The strategy policy as a function of its arguments.
NextPolicy ==
    \/ \E p \in PolicyPayloads : ValidateTradePayloadCall(p)
    \/ \E p \in PolicyPayloads, profile \in PolicyProfiles, t \in PolicyTiers :
           ValidateTradePayloadWithProfileCall(p, profile, t)

SpecPolicy == Init /\ [][NextPolicy]_vars

\* The helper functions, each as a function of its arguments.
NextPure ==
    \/ \E a \in SlippageActions, f \in SlippageFills, e \in SlippageExpected :
           ComputeSlippageBpsCall(a, f, e)
    \/ \E t \in SizingTemplates, w \in SizingWings, p \in SizingPremiums,
          m \in SizingMultipliers : SizeStructureCall(t, w, p, m)
    \/ \E s \in WingStrikeLists, c \in WingCenters, lw \in WingWidths, uw \in WingWidths :
           SelectWingStrikesCall(s, c, lw, uw)
    \/ \E ch \in ExpiryChains, r \in ExpiryRanges : SelectExpiryCall(ch, r[1], r[2])
    \/ \E t \in CurveTemplates, w \in CurveWings, p \in CurvePremiums,
          u \in CurveUnderlyings : ResolveCurveCall(t, w, p, u)

SpecPure == Init /\ [][NextPure]_vars

\* The execution-quality endpoint, polled for one tenant.
InitQuality ==
    /\ InitHalt /\ ing = <<>> /\ InitExec /\ InitCalls
    /\ trades = QualityTradeRows /\ fills = QualityFillRows /\ auditLog = <<>>
    /\ autonomous_enabled = TRUE
    /\ \E m \in {"autonomous", "confirmation"} :
           agentMode = [c \in Clients |-> [context |-> m, row |-> m]]
    /\ \E rp \in QualityRiskParams :
           riskParamsRow = [c \in Clients |-> IF c = "A" THEN rp ELSE <<>>]
    /\ evals = <<>>
    /\ wallMs = 0

NextQuality == \E tg \in QualityTargets : GetExecutionQuality("A", tg[1], tg[2])

SpecQuality == InitQuality /\ [][NextQuality]_vars

\* The execution pipelines of one application process, with the admin
\* switching the halt on and off.
Next ==
    \/ \E h \in BOOLEAN : HaltSetBegin(AppCtrl, h, "ops", "admin")
    \/ \E ok \in BOOLEAN : HaltSetPersist(AppCtrl, ok)
    \/ \E tg \in ApproveTargets : ApproveBegin(tg[1], tg[2])
    \/ \E tg \in RejectTargets : RejectProposal(tg[1], tg[2])
    \/ \E i \in 1..MaxRuns, ok \in BOOLEAN : ExecuteTradeHaltGate(i, ok)
    \/ \E i \in 1..MaxRuns, snap \in MarketSnapshots : ExecuteTradeValidate(i, snap)
    \/ \E i \in 1..MaxRuns, res \in BrokerOrderResults : ExecuteTradeSubmit(i, res)
    \/ \E i \in 1..MaxRuns : ExecuteTradeRecord(i)
    \/ \E i \in 1..MaxRuns : ApproveResolve(i)
    \/ \E tg \in TemplateTargets : TemplateBegin(tg[1], tg[2])
    \/ \E i \in 1..MaxRuns, ok \in BOOLEAN : TemplateHaltGate(i, ok)
    \/ \E i \in 1..MaxRuns, out \in ResolveOutcomes, snap \in TemplateSnapshots :
           TemplateResolveAndEnforce(i, out, snap)
    \/ \E i \in 1..MaxRuns, res \in BrokerComboResults : TemplateSubmit(i, res)
    \/ \E i \in 1..MaxRuns : TemplateRecord(i)

Spec == Init /\ [][Next]_vars

\* Requests of one client arriving while earlier ones are still under way:
\* approvals and rejections of its pending proposals, on one process.
MaxRacers == 2

\* Two hedges of client A, proposed by earlier chats.
RaceProposals ==
    << [client |-> "A", trade_payload |-> PayOk, status |-> "pending"],
       [client |-> "A",
        trade_payload |-> TradePayload("SELL", "ES", 1, "delta_rebalance_single"),
        status |-> "pending"] >>

RaceTargets == {<<"A", 1>>, <<"A", 2>>}

\* The portfolio holds 19 open legs, one short of max_open_positions, or 20.
RaceSnapshots ==
    { [net_delta |-> 0, open_legs |-> 19, bid |-> 1000, ask |-> 1050, now |-> 12 * 60],
      [net_delta |-> 0, open_legs |-> 20, bid |-> 1000, ask |-> 1050, now |-> 12 * 60] }

RaceOrderResults == {NoOrder, OrderResult("filled", Num(1025), NoNumber, NoText)}

InitRace ==
    /\ InitHalt /\ InitDb /\ ing = <<>> /\ InitCalls /\ InitAgent /\ InitTenants
    /\ proposals = RaceProposals
    /\ executions = <<>>
    /\ lossStreak = [c \in Clients |-> <<>>]
    /\ runs = <<>>

RaceApprove(client, pid) == Len(runs) < MaxRacers /\ ApproveArrive(client, pid)

RaceReject(client, pid) == Len(runs) < MaxRacers /\ RejectResolve(client, pid)

NextRace ==
    \/ \E tg \in RaceTargets : RaceApprove(tg[1], tg[2])
    \/ \E tg \in RaceTargets : RaceReject(tg[1], tg[2])
    \/ \E i \in 1..MaxRacers : ExecuteTradeHaltGate(i, TRUE)
    \/ \E i \in 1..MaxRacers, snap \in RaceSnapshots : ExecuteTradeValidate(i, snap)
    \/ \E i \in 1..MaxRacers, res \in RaceOrderResults : ExecuteTradeSubmit(i, res)
    \/ \E i \in 1..MaxRacers : ExecuteTradeRecord(i)
    \/ \E i \in 1..MaxRacers : ApproveResolve(i)

SpecRace == InitRace /\ [][NextRace]_vars

\* Chat, set_mode and the execution-quality endpoint for one tenant whose
\* policy is enabled (critical action pause_autonomous, the default) and
\* whose two trades of the window have no fill: a critical fill-coverage alert.
ModesTradeRows ==
    << [client |-> "A", action |-> "BUY", qty |-> 1, fill_price |-> Price(1000),
        order_id |-> "o1", status |-> "filled", pnl |-> 0, instrument |-> "FOP",
        timestamp |-> 1000],
       [client |-> "A", action |-> "SELL", qty |-> 1, fill_price |-> Price(1000),
        order_id |-> "o2", status |-> "filled", pnl |-> 0, instrument |-> "FOP",
        timestamp |-> 2000] >>

\* Requests with the time since the previous one: a second, 25 minutes.
ModesTargets ==
    { <<QualityRequest(NoNumber, NoNumber, FALSE), 1000>>,
      <<QualityRequest(Num(0), Num(500), FALSE), 1500000>> }

InitModes ==
    /\ InitHalt /\ ing = <<>> /\ InitExec /\ InitCalls
    /\ trades = ModesTradeRows /\ fills = <<>> /\ auditLog = <<>>
    /\ autonomous_enabled = TRUE
    /\ agentMode = [c \in Clients |-> [context |-> "confirmation", row |-> "confirmation"]]
    /\ riskParamsRow = [c \in Clients |->
                           IF c = "A" THEN [auto_remediation_enabled |-> TRUE] ELSE <<>>]
    /\ evals = <<>>
    /\ wallMs = 0

NextModes ==
    \/ \E m \in {"confirmation", "autonomous"} : SetMode("A", m)
    \/ \E tg \in ModesTargets : GetExecutionQuality("A", tg[1], tg[2])
    \/ ChatBegin("A")
    \/ \E i \in 1..MaxRuns, d \in ChatDecisions : ChatDecide(i, d)
    \/ \E i \in 1..MaxRuns : ExecuteTradeHaltGate(i, TRUE)
    \/ \E i \in 1..MaxRuns, snap \in ChatSnapshots : ExecuteTradeValidate(i, snap)
    \/ \E i \in 1..MaxRuns, res \in BrokerOrderResults : ExecuteTradeSubmit(i, res)
    \/ \E i \in 1..MaxRuns : ExecuteTradeRecord(i)

SpecModes == InitModes /\ [][NextModes]_vars

\* Two tenants on one process: each addresses its own rows and the rows of
\* the other by id, while the admin may halt trading.
IsolationProposals ==
    << [client |-> "A", trade_payload |-> PayOk, status |-> "pending"],
       [client |-> "B", trade_payload |-> PayOk, status |-> "pending"] >>

\* (authenticated client, proposal id) of the approve and reject requests.
IsolationProposalTargets == {<<"A", 1>>, <<"B", 1>>, <<"A", 2>>}

\* (authenticated client, template id): the template belongs to client A.
IsolationTemplateTargets == {<<"A", 1>>, <<"B", 1>>}

IsolationResolveOutcomes == {[ok |-> TRUE, contracts |-> 1, premium |-> 320]}

IsolationSnapshot ==
    [net_delta |-> 0, open_legs |-> 0, bid |-> 1000, ask |-> 1050, now |-> 12 * 60]

IsolationFillEvent ==
    [qty |-> 1, price |-> 1010, status |-> "filled",
     pnl |-> Pnl(-500), expected |-> [n |-> 1000, d |-> 1]]

InitIsolation ==
    /\ InitHalt /\ InitDb /\ ing = <<>> /\ InitCalls /\ InitAgent /\ InitTenants
    /\ proposals = IsolationProposals
    /\ executions = <<>>
    /\ lossStreak = [c \in Clients |-> <<>>]
    /\ runs = <<>>

IsolationGet(client, tid) == Len(runs) < MaxRuns /\ GetTemplateRequest(client, tid)

IsolationResolve(client, tid, outcome) ==
    Len(runs) < MaxRuns /\ ResolveTemplateRequest(client, tid, outcome)

IsolationIngest(client, trade) ==
    /\ AllIngestsDone
    /\ IngestBegin(client, trade, "k1", NoText, "b1",
                   IsolationFillEvent.qty, IsolationFillEvent.price,
                   IsolationFillEvent.status, IsolationFillEvent.pnl,
                   IsolationFillEvent.expected)

NextIsolation ==
    \/ HaltSetBegin(AppCtrl, TRUE, "ops", "admin")
    \/ HaltSetPersist(AppCtrl, TRUE)
    \/ \E tg \in IsolationTemplateTargets : IsolationGet(tg[1], tg[2])
    \/ \E tg \in IsolationTemplateTargets, out \in IsolationResolveOutcomes :
           IsolationResolve(tg[1], tg[2], out)
    \/ \E tg \in IsolationTemplateTargets : TemplateBegin(tg[1], tg[2])
    \/ \E tg \in IsolationProposalTargets : ApproveBegin(tg[1], tg[2])
    \/ \E tg \in IsolationProposalTargets : RejectProposal(tg[1], tg[2])
    \/ \E tg \in FillTargets : IsolationIngest(tg[1], tg[2])
    \/ \E i \in 1..MaxIngests : IngestCommit(i)
    \/ \E i \in 1..MaxRuns : ExecuteTradeHaltGate(i, TRUE)
    \/ \E i \in 1..MaxRuns : ExecuteTradeValidate(i, IsolationSnapshot)
    \/ \E i \in 1..MaxRuns : ExecuteTradeSubmit(i, OrderResult("filled", Num(1025), NoNumber, NoText))
    \/ \E i \in 1..MaxRuns : ExecuteTradeRecord(i)
    \/ \E i \in 1..MaxRuns : ApproveResolve(i)
    \/ \E i \in 1..MaxRuns : TemplateHaltGate(i, TRUE)
    \/ \E i \in 1..MaxRuns, out \in IsolationResolveOutcomes, snap \in TemplateSnapshots :
           TemplateResolveAndEnforce(i, out, snap)
    \/ \E i \in 1..MaxRuns : TemplateSubmit(i, OrderResult("filled", Num(320), Num(320), "mock-combo-fill"))
    \/ \E i \in 1..MaxRuns : TemplateRecord(i)

SpecIsolation == InitIsolation /\ [][NextIsolation]_vars

\* The single-leg pipeline of a client whose three most recent Trade rows
\* carry realized losses (trade.pnl is written by ingest_trade_fill from a
\* fill's realized_pnl), each beyond $500 and together within max_loss.
LosingTrades ==
    << [client |-> "A", action |-> "BUY", qty |-> 1, fill_price |-> Price(1000),
        order_id |-> "o1", status |-> "filled", pnl |-> 0 - 70000, instrument |-> "FOP"],
       [client |-> "A", action |-> "BUY", qty |-> 1, fill_price |-> Price(1000),
        order_id |-> "o2", status |-> "filled", pnl |-> 0 - 65000, instrument |-> "FOP"],
       [client |-> "A", action |-> "SELL", qty |-> 1, fill_price |-> Price(1000),
        order_id |-> "o3", status |-> "filled", pnl |-> 0 - 80000, instrument |-> "FOP"] >>

InitBreaker ==
    /\ InitHalt
    /\ trades = LosingTrades /\ fills = <<>> /\ auditLog = <<>>
    /\ ing = <<>>
    /\ InitExec
    /\ InitCalls
    /\ InitAgent
    /\ InitTenants

NextBreaker ==
    \/ \E h \in BOOLEAN : HaltSetBegin(AppCtrl, h, "ops", "admin")
    \/ \E ok \in BOOLEAN : HaltSetPersist(AppCtrl, ok)
    \/ \E tg \in ApproveTargets : ApproveBegin(tg[1], tg[2])
    \/ \E tg \in RejectTargets : RejectProposal(tg[1], tg[2])
    \/ \E i \in 1..MaxRuns, ok \in BOOLEAN : ExecuteTradeHaltGate(i, ok)
    \/ \E i \in 1..MaxRuns, snap \in MarketSnapshots : ExecuteTradeValidate(i, snap)
    \/ \E i \in 1..MaxRuns, res \in BrokerOrderResults : ExecuteTradeSubmit(i, res)
    \/ \E i \in 1..MaxRuns : ExecuteTradeRecord(i)
    \/ \E i \in 1..MaxRuns : ApproveResolve(i)

SpecBreaker == InitBreaker /\ [][NextBreaker]_vars

\* Chat requests of client A while the mode is switched and the admin halts
\* and resumes, in a process started with either value of AUTONOMOUS_ENABLED.
InitChat ==
    /\ InitHalt /\ InitDb /\ ing = <<>> /\ InitExec /\ InitCalls /\ InitTenants
    /\ agentMode = [c \in Clients |-> [context |-> "confirmation", row |-> "confirmation"]]
    /\ autonomous_enabled \in BOOLEAN

NextChat ==
    \/ \E h \in BOOLEAN : HaltSetBegin(AppCtrl, h, "ops", "admin")
    \/ \E ok \in BOOLEAN : HaltSetPersist(AppCtrl, ok)
    \/ \E m \in {"confirmation", "autonomous"} : SetMode("A", m)
    \/ ChatBegin("A")
    \/ \E i \in 1..MaxRuns, d \in ChatDecisions : ChatDecide(i, d)
    \/ \E i \in 1..MaxRuns, ok \in BOOLEAN : ExecuteTradeHaltGate(i, ok)
    \/ \E i \in 1..MaxRuns, snap \in ChatSnapshots : ExecuteTradeValidate(i, snap)
    \/ \E i \in 1..MaxRuns, res \in BrokerOrderResults : ExecuteTradeSubmit(i, res)
    \/ \E i \in 1..MaxRuns : ExecuteTradeRecord(i)

SpecChat == InitChat /\ [][NextChat]_vars


-----------------------------------------------------------------------------
(* Claims about the EmergencyHaltController                                *)

\* C3: with two controller instances sharing one reachable store, once a
\* set(halted, reason, actor) has returned on one instance, a get() started
\* afterwards on the other instance (no other set() having returned in
\* between) returns exactly that halted value, reason and actor.
C3_SetVisibleOnOtherInstance ==
    ( /\ getObs.ctrl /= "none"
      /\ getObs.readOk
      /\ getObs.after.ctrl /= "none"
      /\ getObs.after.ctrl /= getObs.ctrl
      /\ getObs.after.writeOk )
    => /\ getObs.result.halted = getObs.after.state.halted
       /\ getObs.result.reason = getObs.after.state.reason
       /\ getObs.result.updated_by = getObs.after.state.updated_by

\* C3 witness: a reader that was running in memory learns a halt, with its
\* reason and actor, that another instance wrote to the store.
C3_Witness ==
    /\ getObs.ctrl = "c2"
    /\ getObs.readOk
    /\ getObs.after.ctrl = "c1"
    /\ getObs.after.writeOk
    /\ ~getObs.before.halted
    /\ getObs.result.halted
    /\ getObs.result.reason = "drill"
    /\ getObs.result.updated_by = "oncall"

\* C4 (as claimed): if set(halted=True) has returned on a controller and no
\* set(halted=False) has been issued on any controller since, every later
\* get() on that controller returns halted=True, also when store reads or
\* writes fail.
C4_HaltStaysUntilExplicitUnset ==
    (getObs.ctrl /= "none" /\ getObs.expectHalted) => getObs.result.halted

-----------------------------------------------------------------------------
(* Claims about the fill ledger                                            *)

\* The stored fills of the call's client and trade that carry the call's
\* idempotency key or its broker_fill_id.
StoredDuplicates(rows, c) ==
    {i \in DOMAIN rows :
        /\ rows[i].client = c.client
        /\ rows[i].trade = c.trade
        /\ \/ c.key /= NoText /\ rows[i].ingest_idempotency_key = c.key
           \/ c.bfid /= NoText /\ rows[i].broker_fill_id = c.bfid}

\* C5: an ingest_trade_fill call whose idempotency key or broker_fill_id
\* matches a fill already stored for the client and trade returns that stored
\* row and changes nothing: no row is inserted and the trade keeps its status,
\* fill_price and pnl.
C5_DuplicateIngestReturnsStoredRow ==
    [][ Len(ing') = Len(ing) + 1 =>
          LET c == ing'[Len(ing')]
          IN StoredDuplicates(fills, c) /= {} =>
                /\ c.pc = "done"
                /\ c.outcome = "existing"
                /\ c.result \in StoredDuplicates(fills, c)
                /\ fills' = fills
                /\ trades' = trades ]_vars

\* C5 witness: a retry that repeats a stored broker_fill_id with another
\* price was answered from the pre-check with the stored row.
C5_Witness ==
    \E i \in DOMAIN ing :
        /\ ing[i].pc = "done"
        /\ ing[i].outcome = "existing"
        /\ ing[i].loaded.status = ""
        /\ ing[i].key = NoText
        /\ ing[i].bfid = "b1"
        /\ fills[ing[i].result].fill_price /= ing[i].price
        /\ Len(fills) = 1

\* C6: when two calls with the same idempotency key (or broker_fill_id) for
\* the same trade both pass the pre-check and then commit, one row is stored;
\* the losing commit changes neither the fills nor the trade and the call
\* returns the stored row without an error.
C6_ConcurrentDuplicateRecovered ==
    [][ \A i \in DOMAIN ing :
          ( /\ ing[i].pc = "commit"
            /\ ing'[i].pc = "done"
            /\ StoredDuplicates(fills, ing[i]) /= {} )
          => /\ fills' = fills
             /\ trades' = trades
             /\ ing'[i].outcome = "existing"
             /\ ing'[i].result \in StoredDuplicates(fills, ing[i]) ]_vars

\* C6 witness: two calls with the same idempotency key passed the pre-check;
\* the first commit created the row, the second one hit the unique index and
\* returned that row; the trade carries the winner's fill only.
C6_Witness ==
    \E i, j \in DOMAIN ing :
        /\ i /= j
        /\ ing[i].key = "k1" /\ ing[j].key = "k1"
        /\ ing[i].client = "A" /\ ing[j].client = "A"
        /\ ing[i].trade = 1 /\ ing[j].trade = 1
        /\ ing[i].pc = "done" /\ ing[i].outcome = "created"
        /\ ing[j].pc = "done" /\ ing[j].outcome = "existing"
        /\ ing[j].loaded.status /= ""
        /\ ing[j].result = ing[i].result
        /\ ing[j].price /= ing[i].price
        /\ Len(fills) = 1
        /\ PriceEq(trades[1].fill_price, Price(ing[i].price))
        /\ trades[1].status = ing[i].status

\* trade.fill_price = sum(qty * fill_price) / sum(qty) over the stored fills.
IsWeightedMean(t) ==
    /\ ~IsNoPrice(trades[t].fill_price)
    /\ trades[t].fill_price.n * SumQty(fills, trades[t].client, t)
         = trades[t].fill_price.d * SumNotional(fills, trades[t].client, t)

IngestCompletedOn(t) ==
    \E i \in DOMAIN ing :
        /\ ing[i].trade = t
        /\ ing[i].pc = "done"
        /\ ing[i].outcome \in {"created", "existing"}

\* C7: with calls applied one after another, after every completed
\* ingest_trade_fill on a trade, trade.fill_price is the quantity-weighted
\* mean of all TradeFill rows stored for that trade.
C7_FillPriceIsWeightedMean ==
    \A t \in DOMAIN trades : IngestCompletedOn(t) => IsWeightedMean(t)

\* C7 witness: two fills of different size and price on one trade.
C7_Witness ==
    /\ Len(fills) = 2
    /\ fills[1].trade = 1 /\ fills[2].trade = 1
    /\ fills[1].qty /= fills[2].qty
    /\ fills[1].fill_price /= fills[2].fill_price
    /\ AllIngestsDone

\* C8 (as claimed): two calls carrying different fills for the same trade
\* that run concurrently both store their fill and, once both have
\* committed, trade.fill_price is the quantity-weighted mean of the stored
\* fills of that trade.
C8_ConcurrentDistinctFillsMean ==
    \A i, j \in DOMAIN ing :
        ( /\ i /= j
          /\ ing[i].client = ing[j].client /\ ing[i].trade = ing[j].trade
          /\ TradeExists(ing[i].client, ing[i].trade)
          /\ ing[i].key /= NoText /\ ing[j].key /= NoText
          /\ ing[i].key /= ing[j].key
          /\ ing[i].bfid /= NoText /\ ing[j].bfid /= NoText
          /\ ing[i].bfid /= ing[j].bfid
          /\ AllIngestsDone )
        => /\ ing[i].outcome = "created"
           /\ ing[j].outcome = "created"
           /\ IsWeightedMean(ing[i].trade)

-----------------------------------------------------------------------------
(* Claims about the execution pipelines                                    *)

\* C1: whenever the halt state read at the start of execute_strategy_template
\* is halted, that step ends the call with the globally-halted error; the call
\* has made no broker call, no StrategyExecution, Trade or TradeFill row is
\* written, and the only write is one emergency_halt_blocked audit event of
\* the caller.
C1_TemplateHaltedWritesOnlyAudit ==
    [][ \A i \in DOMAIN runs :
          ( /\ runs[i].kind = "template"
            /\ runs[i].pc = "halt"
            /\ runs'[i].sawHalted )
          => /\ runs'[i].pc = "done"
             /\ runs'[i].error = HaltedError
             /\ runs'[i].ops = {}
             /\ runs'[i].rows = {}
             /\ executions' = executions
             /\ trades' = trades
             /\ fills' = fills
             /\ proposals' = proposals
             /\ auditLog' = Append(auditLog,
                    AuditRow(runs[i].client, "emergency_halt_blocked", NoText, 0)) ]_vars

\* C1 witness: a template execution of the owner of the template was refused
\* because of the halt, and the audit event is the only row written.
C1_Witness ==
    \E i \in DOMAIN runs :
        /\ runs[i].kind = "template"
        /\ GetTemplate(runs[i].client, runs[i].target) /= 0
        /\ runs[i].pc = "done"
        /\ runs[i].sawHalted
        /\ runs[i].error = HaltedError
        /\ auditLog = <<AuditRow(runs[i].client, "emergency_halt_blocked", NoText, 0)>>
        /\ executions = <<>>
        /\ trades = InitTrades

\* C2: when approve_proposal of a pending proposal reads the halt state as
\* halted, that step ends the call with the globally-halted error; no order
\* has gone to the broker, no Trade row is written, one emergency_halt_blocked
\* audit event is written and the proposal keeps its status.
C2_ApproveHaltedLeavesProposalPending ==
    [][ \A i \in DOMAIN runs :
          ( /\ runs[i].kind = "approve"
            /\ runs[i].pc = "halt"
            /\ runs'[i].sawHalted )
          => /\ runs'[i].pc = "done"
             /\ runs'[i].error = HaltedError
             /\ "submit_order" \notin runs'[i].ops
             /\ runs'[i].rows = {}
             /\ trades' = trades
             /\ fills' = fills
             /\ proposals' = proposals
             /\ auditLog' = Append(auditLog,
                    AuditRow(runs[i].client, "emergency_halt_blocked", NoText, 0)) ]_vars

\* C2 witness: an approval was refused because of the halt and its proposal
\* is still pending.
C2_Witness ==
    \E i \in DOMAIN runs :
        /\ runs[i].kind = "approve"
        /\ runs[i].pc = "done"
        /\ runs[i].sawHalted
        /\ runs[i].error = HaltedError
        /\ proposals[runs[i].target].status = "pending"
        /\ \E k \in DOMAIN auditLog : auditLog[k].event_type = "emergency_halt_blocked"

Submitted(r) == "submit_order" \in r.ops \/ "submit_combo_order" \in r.ops

\* The call was aborted by a policy or risk check.
AbortedByCheck(r) ==
    /\ r.pc = "done"
    /\ r.checks /= <<>>
    /\ r.error \notin {"", "BrokerOrderError"}

\* C9: on both submission paths (approve_proposal's _execute_trade and
\* execute_strategy_template) an order reaches the broker only after the
\* StrategyRegistry and then the RiskGovernor have validated it, and a call
\* aborted by a check has submitted nothing, written no Trade row and has
\* written an audit event that carries the rule code of the violation.
C9_RegistryThenGovernorBeforeSubmission ==
    \A i \in DOMAIN runs :
        /\ Submitted(runs[i]) =>
               runs[i].checks = <<"StrategyRegistry", "RiskGovernor">>
        /\ AbortedByCheck(runs[i]) =>
               /\ ~Submitted(runs[i])
               /\ "Trade" \notin runs[i].rows
               /\ \E k \in DOMAIN runs[i].audits :
                      /\ runs[i].audits[k].risk_rule /= NoText
                      /\ runs[i].audits[k].risk_rule = runs[i].rule

TradesOfOrder(order_id) == {k \in DOMAIN trades : trades[k].order_id = order_id}

FillsOfTrade(trade_id) == {k \in DOMAIN fills : fills[k].trade = trade_id}

\* C10: after a successful single-leg execution whose broker response carries
\* a fill price, exactly one Trade row exists for the order, exactly one
\* TradeFill row is attached to that trade, and the trade's fill price is the
\* weighted price of its fills.
C10_SingleLegFillRecorded ==
    \A i \in DOMAIN runs :
        ( /\ runs[i].kind = "approve"
          /\ runs[i].pc = "done"
          /\ runs[i].error = ""
          /\ runs[i].order.fill_price.has )
        => /\ Cardinality(TradesOfOrder(runs[i].order.order_id)) = 1
           /\ Cardinality(FillsOfTrade(runs[i].tradeId)) = 1
           /\ IsWeightedMean(runs[i].tradeId)

\* C20: when the shared store cannot be read during get(), get() returns
\* (it raises nothing) the state the instance held in memory before the call,
\* unchanged.
C20_GetKeepsMemoryOnStoreFailure ==
    (getObs.ctrl /= "none" /\ ~getObs.readOk)
    => getObs.result = getObs.before

\* C20 witness: a halted instance fails to read a store that holds a newer,
\* different state and still answers halted.
C20_Witness ==
    /\ getObs.ctrl /= "none"
    /\ ~getObs.readOk
    /\ getObs.before.halted
    /\ getObs.result.halted
    /\ ~redisStore.empty
    /\ ~redisStore.halted

-----------------------------------------------------------------------------
(* Claims about RiskGovernor.validate_order                                *)

\* The delta the order leaves behind: projected_delta, or net_delta when
\* none is given.
CalledProjectedDelta ==
    IF riskCall.in.projected_delta.has THEN riskCall.in.projected_delta.v
    ELSE riskCall.in.net_delta

AbsVal(x) == IF x >= 0 THEN x ELSE 0 - x

\* The order strictly reduces a delta that is already beyond the threshold.
CalledReducesBreach ==
    /\ AbsVal(riskCall.in.net_delta) > riskCall.params.delta_threshold
    /\ AbsVal(CalledProjectedDelta) < AbsVal(riskCall.in.net_delta)

\* The rules as the specification words them, on the observed call.
CalledRuleBroken(rule) ==
    CASE rule = "MAX_NET_DELTA" ->
             /\ AbsVal(CalledProjectedDelta) > riskCall.params.delta_threshold
             /\ ~CalledReducesBreach
      [] rule = "MAX_SINGLE_ORDER_SIZE" -> riskCall.in.qty > riskCall.params.max_size
      [] rule = "MAX_DAILY_LOSS" ->
             riskCall.in.daily_pnl <= 0 - AbsVal(riskCall.params.max_loss)
      [] rule = "MAX_OPEN_POSITIONS" ->
             riskCall.in.open_legs >= riskCall.params.max_open_positions
      [] rule = "MARKET_HOURS" ->
             riskCall.in.now > 21 * 60 /\ riskCall.in.now < 22 * 60
      [] rule = "SPREAD_LIMIT" ->
             /\ riskCall.in.quote.bid > 0
             /\ riskCall.in.quote.ask > 0
             /\ 200 * (riskCall.in.quote.ask - riskCall.in.quote.bid)
                    > 15 * (riskCall.in.quote.ask + riskCall.in.quote.bid)
      [] rule = "CIRCUIT_BREAKER" ->
             LET n == Len(riskCall.losses)
             IN /\ n >= 3
                /\ riskCall.losses[n] <= 0 - 50000
                /\ riskCall.losses[n - 1] <= 0 - 50000
                /\ riskCall.losses[n - 2] <= 0 - 50000

RuleOrder ==
    <<"MAX_NET_DELTA", "MAX_SINGLE_ORDER_SIZE", "MAX_DAILY_LOSS",
      "MAX_OPEN_POSITIONS", "MARKET_HOURS", "SPREAD_LIMIT", "CIRCUIT_BREAKER">>

\* C12: validate_order reports the rule code of the first rule, in the order
\* MAX_NET_DELTA, MAX_SINGLE_ORDER_SIZE, MAX_DAILY_LOSS, MAX_OPEN_POSITIONS,
\* MARKET_HOURS, SPREAD_LIMIT, CIRCUIT_BREAKER, that the call violates, and
\* it returns without a violation iff the call violates none of the seven.
C12_FirstViolatedRuleReported ==
    riskCall.called =>
        LET broken == {k \in DOMAIN RuleOrder : CalledRuleBroken(RuleOrder[k])}
        IN /\ riskCall.out.ok <=> broken = {}
           /\ broken /= {} =>
                  riskCall.out.rule =
                      RuleOrder[CHOOSE k \in broken : \A j \in broken : k <= j]

\* C12 witness: a call that violates the size, hours and spread rules at once
\* is reported as MAX_SINGLE_ORDER_SIZE.
C12_Witness ==
    /\ riskCall.called
    /\ ~CalledRuleBroken("MAX_NET_DELTA")
    /\ CalledRuleBroken("MAX_SINGLE_ORDER_SIZE")
    /\ CalledRuleBroken("MARKET_HOURS")
    /\ CalledRuleBroken("SPREAD_LIMIT")
    /\ riskCall.out.rule = "MAX_SINGLE_ORDER_SIZE"

\* C13: validate_order rejects every order with qty > max_size whatever the
\* other inputs are, and an order with qty = max_size that violates no other
\* rule passes.
C13_OversizeAlwaysRejected ==
    riskCall.called =>
        /\ riskCall.in.qty > riskCall.params.max_size => ~riskCall.out.ok
        /\ ( /\ riskCall.in.qty = riskCall.params.max_size
             /\ \A k \in DOMAIN RuleOrder :
                    RuleOrder[k] /= "MAX_SINGLE_ORDER_SIZE"
                        => ~CalledRuleBroken(RuleOrder[k]) )
           => riskCall.out.ok

\* C13 witness: an order of exactly max_size, with nothing else wrong, passed.
C13_Witness ==
    /\ riskCall.called
    /\ riskCall.in.qty = riskCall.params.max_size
    /\ riskCall.out.ok

C16_MaxNetDeltaUnlessReducing ==
    riskCall.called =>
        ( (~riskCall.out.ok /\ riskCall.out.rule = "MAX_NET_DELTA")
          <=> ( /\ AbsVal(CalledProjectedDelta) > riskCall.params.delta_threshold
                /\ ~( /\ AbsVal(riskCall.in.net_delta) > riskCall.params.delta_threshold
                      /\ AbsVal(CalledProjectedDelta) < AbsVal(riskCall.in.net_delta) ) ) )

\* C16 witness: an order that brings a breached delta of -0.30 to +0.25,
\* still beyond the threshold of 0.20, is not refused for its delta.
C16_Witness ==
    /\ riskCall.called
    /\ riskCall.in.net_delta = 0 - 30
    /\ riskCall.in.projected_delta = Num(25)
    /\ riskCall.out.rule /= "MAX_NET_DELTA"

-----------------------------------------------------------------------------
(* Claims about the circuit breaker in the single-leg pipeline             *)

\* The P&L of the client's Trade rows, oldest first.
RECURSIVE RecordedPnls(_, _)
RecordedPnls(rows, client) ==
    IF rows = <<>> THEN <<>>
    ELSE (IF Head(rows).client = client THEN <<Head(rows).pnl>> ELSE <<>>)
         \o RecordedPnls(Tail(rows), client)

LastThreeRecordedAreLosses(client) ==
    LET pnls == RecordedPnls(trades, client)
    IN /\ Len(pnls) >= 3
       /\ \A k \in (Len(pnls) - 2)..Len(pnls) : pnls[k] <= 0 - 50000

\* C15: in the single-leg pipeline, while the client's three most recent
\* recorded trades each have a P&L <= -500, no _execute_trade of that client
\* gets past the governor: none has submitted an order to the broker (it is
\* between its submission and the recording of its Trade row).
C15_BreakerBlocksSingleLeg ==
    \A i \in DOMAIN runs :
        ( /\ runs[i].kind = "approve"
          /\ LastThreeRecordedAreLosses(runs[i].client) )
        => ~( /\ runs[i].pc = "record"
              /\ "submit_order" \in runs[i].ops )

-----------------------------------------------------------------------------
(* Claims about the StrategyRegistry                                        *)

\* The executable legs of the validated payload: the dict entries of its
\* `legs` list, or the payload itself when the list is empty.
CalledLegs ==
    LET p == policyCall.payload
    IN IF p.legs = <<>>
       THEN <<[action |-> p.action, symbol |-> p.symbol, instrument |-> p.instrument]>>
       ELSE [k \in 1..Cardinality({j \in DOMAIN p.legs : p.legs[j].isDict}) |->
                LET j == CHOOSE j \in DOMAIN p.legs :
                            /\ p.legs[j].isDict
                            /\ Cardinality({m \in 1..j : p.legs[m].isDict}) = k
                IN [action |-> p.legs[j].action, symbol |-> p.legs[j].symbol,
                    instrument |-> p.legs[j].instrument]]

\* Upper-case text of a leg's field, the payload's field or the default
\* standing in for a missing one.
CalledLegField(own, shared, default) ==
    LET raw == IF own /= NoText /\ own /= "" THEN own
               ELSE IF shared /= NoText /\ shared /= "" THEN shared
               ELSE default
    IN CASE raw = "es" -> "ES"
         [] raw = "fop" -> "FOP"
         [] raw = "fut" -> "FUT"
         [] raw = "buy" -> "BUY"
         [] raw = "sell" -> "SELL"
         [] OTHER -> raw

\* C17: a payload accepted by either registry entry point has between one
\* and max_legs executable legs, every leg symbol in the allowed_symbols and
\* every leg instrument in the allowed_instruments of the StrategySpec the
\* call returned.
C17_AcceptedPayloadWithinSpec ==
    (policyCall.called /\ policyCall.out.ok) =>
        LET spec == policyCall.out.spec
            legs == CalledLegs
        IN /\ 1 <= Len(legs)
           /\ Len(legs) <= spec.max_legs
           /\ \A k \in DOMAIN legs :
                  /\ CalledLegField(legs[k].symbol, policyCall.payload.symbol, "")
                         \in spec.allowed_symbols
                  /\ CalledLegField(legs[k].instrument,
                                    policyCall.payload.instrument, "FOP")
                         \in spec.allowed_instruments

\* The client's tier is a member of the profile's tier allowlist, compared
\* case-insensitively; an absent or empty tier is no member.
CalledTierAllowed ==
    LET low(t) == CASE t = "PRO" -> "pro" [] t = "Basic" -> "basic" [] OTHER -> t
    IN /\ policyCall.client_tier /= NoText
       /\ policyCall.client_tier /= ""
       /\ low(policyCall.client_tier)
              \in {low(t) : t \in policyCall.profile.tier_allowlist}

\* C18: on the profile path, when the profile's tier allowlist is not empty
\* and the client's tier (absent and empty tiers included) is not a member of
\* it, validation rejects with STRATEGY_POLICY.
C18_TierOutsideAllowlistRejected ==
    ( /\ policyCall.called
      /\ policyCall.path = "profile"
      /\ policyCall.profile.tier_allowlist /= {}
      /\ ~CalledTierAllowed )
    => (~policyCall.out.ok /\ policyCall.out.rule = "STRATEGY_POLICY")

\* The strategy of the observed call requires defined risk: the built-in spec
\* of the payload's strategy, or the profile.
CalledRequiresDefinedRisk ==
    IF policyCall.path = "profile" THEN policyCall.profile.require_defined_risk
    ELSE LET id == policyCall.payload.strategy_id
         IN id \in {"vertical_spread", " vertical_spread ", "iron_condor",
                    "short_strangle_defined"}

\* At least two executable legs, with both a BUY and a SELL among their actions.
CalledHasBothSides ==
    LET legs == CalledLegs
    IN /\ Len(legs) >= 2
       /\ \E k \in DOMAIN legs : CalledLegField(legs[k].action, NoText, "") = "BUY"
       /\ \E k \in DOMAIN legs : CalledLegField(legs[k].action, NoText, "") = "SELL"

\* C19: when the strategy requires defined risk, a payload is accepted only
\* if it has at least two legs whose actions include both BUY and SELL;
\* otherwise it is rejected with STRATEGY_POLICY.
C19_DefinedRiskNeedsBothSides ==
    ( /\ policyCall.called
      /\ CalledRequiresDefinedRisk
      /\ ~CalledHasBothSides )
    => (~policyCall.out.ok /\ policyCall.out.rule = "STRATEGY_POLICY")

\* C19 witness: two BUY legs that pass every other check are rejected by a
\* strategy that requires defined risk, on either entry point.
C19_Witness ==
    /\ policyCall.called
    /\ CalledRequiresDefinedRisk
    /\ Len(CalledLegs) = 2
    /\ \A k \in DOMAIN CalledLegs : CalledLegs[k].action = "BUY"
    /\ ~policyCall.out.ok
    /\ policyCall.out.reason = "requires defined-risk structure"

-----------------------------------------------------------------------------
(* Claims about chat in confirmation mode                                   *)

\* The chat calls that ran in confirmation mode.
ConfirmationChats ==
    {i \in DOMAIN runs : runs[i].kind = "chat" /\ runs[i].mode = "confirmation"}

-----------------------------------------------------------------------------
(* Claims about concurrent set() calls on several controllers              *)

\* C21: with several controllers on one store and their set() calls
\* interleaving, once every set() has returned (and no write failed) the store
\* holds the state with the greatest updated_at among them; the clock gives
\* each set() its own timestamp, so the greatest one is the clock's value.
C21_StoreHoldsGreatestTimestamp ==
    ( /\ \A c \in Ctrls : haltPc[c] = "idle"
      /\ lastSet.ctrl /= "none"
      /\ lastSet.allOk )
    => ( /\ ~redisStore.empty
         /\ FromIsoFormat(redisStore.updated_at) = clock )

-----------------------------------------------------------------------------
(* Claims about the helper functions                                       *)

Called(fn) == pureCall.called /\ pureCall.fn = fn

CalledIsSell == pureCall.args.action \in {"SELL", "sell"}

\* ((fill - expected) / expected) * 10000 as a fraction, from the arguments.
CalledRawBps ==
    LET e == pureCall.args.expected_price
    IN [n |-> (pureCall.args.fill_price * e.d - e.n) * 10000, d |-> e.n]

\* C29: slippage in basis points is ((fill - expected) / expected) * 10000
\* for BUY and the negation of that for SELL (BUY fill 10.10 against 10.00
\* gives +100, SELL gives -100), and it is null, never 0, when no expected
\* price is known or the expected price is not positive.
C29_SlippageSignedOrNull ==
    Called("compute_slippage_bps") =>
        LET e == pureCall.args.expected_price
            out == pureCall.out
        IN IF IsNoPrice(e) \/ e.n <= 0
           THEN IsNoPrice(out) /\ out /= Price(0)
           ELSE /\ ~IsNoPrice(out)
                /\ out.n * CalledRawBps.d =
                       (IF CalledIsSell THEN 0 - CalledRawBps.n ELSE CalledRawBps.n) * out.d
                /\ (pureCall.args.fill_price = 1010 /\ e = Price(1000))
                       => out.n = (IF CalledIsSell THEN 0 - 100 ELSE 100) * out.d

\* C29 witness: a SELL filled at 10.10 against an expected 10.00 has returned
\* -100 basis points.
C29_Witness ==
    /\ Called("compute_slippage_bps")
    /\ pureCall.args.action = "SELL"
    /\ pureCall.args.fill_price = 1010
    /\ pureCall.args.expected_price = Price(1000)
    /\ ~IsNoPrice(pureCall.out)
    /\ pureCall.out.n = (0 - 100) * pureCall.out.d

\* The parts of the sizing claim that do not depend on the divisor.
CalledSizingWithinLimits ==
    LET t == pureCall.args.template
        out == pureCall.out
    IN /\ out.ok => /\ 1 <= out.contracts
                    /\ out.contracts <= t.max_contracts
                    /\ out.estimated_max_risk = out.max_loss_per_1 * out.contracts
                    /\ out.estimated_max_risk <= t.max_risk_per_trade
       /\ t.sizing_method = "fixed_contracts" => out.contracts = 1
       /\ out.max_loss_per_1 * out.contracts > t.max_risk_per_trade => ~out.ok

\* C26 as stated: every successful template resolution returns
\* 1 <= contracts <= max_contracts with estimated max risk
\* = maxLossPer1 * contracts <= max_risk_per_trade, where risk_based sizing
\* gives contracts = min(max_contracts, max(1, floor(max_risk_per_trade /
\* maxLossPer1))) and fixed_contracts gives 1; a structure whose maxLossPer1 *
\* contracts exceeds max_risk_per_trade fails. (With maxLossPer1 = 0 the
\* quotient is unbounded and the count is max_contracts.)
C26_ContractsFromRiskQuotient ==
    Called("resolve_strategy_template") =>
        LET t == pureCall.args.template
            out == pureCall.out
        IN /\ CalledSizingWithinLimits
           /\ t.sizing_method = "risk_based" =>
                  out.contracts =
                      IF out.max_loss_per_1 = 0 THEN t.max_contracts
                      ELSE Smaller(t.max_contracts,
                                   Larger(1, t.max_risk_per_trade \div out.max_loss_per_1))

\* C26 amended: as stated, with the divisor of risk_based sizing not below
\* 1.00: contracts = min(max_contracts, max(1, floor(max_risk_per_trade /
\* max(maxLossPer1, 1)))).
C26_ContractsFromClampedQuotient ==
    Called("resolve_strategy_template") =>
        LET t == pureCall.args.template
            out == pureCall.out
        IN /\ CalledSizingWithinLimits
           /\ t.sizing_method = "risk_based" =>
                  out.contracts =
                      Smaller(t.max_contracts,
                              Larger(1, t.max_risk_per_trade
                                            \div Larger(out.max_loss_per_1, 100)))

\* C26 witness: a risk_based template with a maximum risk of 3.00 and up to
\* ten contracts has been resolved on a structure losing at most 0.50, with
\* three contracts.
C26_Witness ==
    /\ Called("resolve_strategy_template")
    /\ pureCall.args.template.sizing_method = "risk_based"
    /\ pureCall.args.template.max_risk_per_trade = 300
    /\ pureCall.args.template.max_contracts = 10
    /\ pureCall.out.ok
    /\ pureCall.out.max_loss_per_1 = 50
    /\ pureCall.out.contracts = 3

CalledStrikesBelow == {s \in SeqRange(pureCall.args.strikes) : s < pureCall.args.center_strike}

CalledStrikesAbove == {s \in SeqRange(pureCall.args.strikes) : s > pureCall.args.center_strike}

\* C27: wing selection fails iff the chain has no strike strictly below the
\* center or none strictly above it; otherwise it returns (lower, upper) with
\* lower < center < upper, each the available strike on its side nearest to
\* center - lower width and center + upper width respectively.
C27_WingsNearestOnEachSide ==
    Called("_select_wing_strikes") =>
        LET a == pureCall.args
            out == pureCall.out
        IN /\ ~out.ok <=> (CalledStrikesBelow = {} \/ CalledStrikesAbove = {})
           /\ out.ok =>
                  /\ out.lower \in CalledStrikesBelow
                  /\ out.upper \in CalledStrikesAbove
                  /\ out.lower < a.center_strike /\ a.center_strike < out.upper
                  /\ \A s \in CalledStrikesBelow :
                         AbsVal(out.lower - (a.center_strike - a.lower_width))
                             <= AbsVal(s - (a.center_strike - a.lower_width))
                  /\ \A s \in CalledStrikesAbove :
                         AbsVal(out.upper - (a.center_strike + a.upper_width))
                             <= AbsVal(s - (a.center_strike + a.upper_width))

\* C27 witness: on the chain 4900..5100 with center 5000 and widths of 5 the
\* adjacent strikes 4950 and 5050 have been returned.
C27_Witness ==
    /\ Called("_select_wing_strikes")
    /\ pureCall.args.strikes = <<4900, 4950, 5000, 5050, 5100>>
    /\ pureCall.args.center_strike = 5000
    /\ pureCall.args.lower_width = 5
    /\ pureCall.args.upper_width = 5
    /\ pureCall.out = [ok |-> TRUE, lower |-> 4950, upper |-> 5050]

\* The chain's expiries with their days to expiry.
CalledExpiries == SeqRange(ExpiryMap(pureCall.args.chain_rows, <<>>))

CalledExpiriesInRange ==
    {e \in CalledExpiries : pureCall.args.dte_min <= e.dte /\ e.dte <= pureCall.args.dte_max}

\* Twice the distance of a DTE to the midpoint of the configured range.
CalledMidDistance(dte) == AbsVal(2 * dte - (pureCall.args.dte_min + pureCall.args.dte_max))

\* C28: expiry selection returns an expiry whose DTE lies in
\* [dte_min, dte_max] and whose distance to the midpoint of that range is
\* minimal among all such expiries; if no chain expiry lies in the range it
\* fails with an error that lists at most 8 available expiries in ascending
\* DTE order.
C28_ExpiryNearestMidpointOrListed ==
    Called("_select_expiry") =>
        LET out == pureCall.out
        IN IF CalledExpiriesInRange /= {}
           THEN /\ out.ok
                /\ out.selected \in CalledExpiriesInRange
                /\ \A e \in CalledExpiriesInRange :
                       CalledMidDistance(out.selected.dte) <= CalledMidDistance(e.dte)
           ELSE /\ ~out.ok
                /\ Len(out.available) <= 8
                /\ \A k \in DOMAIN out.available : out.available[k] \in CalledExpiries
                /\ \A k \in DOMAIN out.available :
                       \A m \in DOMAIN out.available :
                           k < m => out.available[k].dte <= out.available[m].dte

\* C28 witness: on a chain of nine expiries, none within the range, the call
\* has failed listing eight of them, the nearest first.
C28_Witness ==
    /\ Called("_select_expiry")
    /\ Cardinality(CalledExpiries) = 9
    /\ ~pureCall.out.ok
    /\ Len(pureCall.out.available) = 8
    /\ pureCall.out.available[1].exp = "20261106"

-----------------------------------------------------------------------------
(* Claims about execution quality and auto-remediation                     *)

ExecutedEval(j) == evals[j].status.outcome = "executed"

\* The risk limits of a stored risk_params: the keys of the preset.
LimitsOf(params) ==
    [k \in DOMAIN CONSERVATIVE_RISK_PRESET |-> MergeRiskParameters(params)[k]]

StoredActionCount(params) == MergeRiskParameters(params).auto_remediation_actions_last_hour

StoredLastActionAt(params) == MergeRiskParameters(params).auto_remediation_last_action_at

\* The evaluation has remediation enabled and an alert mapped to an action.
EvalWouldAct(i) ==
    /\ evals[i].status.enabled
    /\ evals[i].alerts /= <<>>
    /\ evals[i].status.planned_action /= "none"

EvalLeavesModeAndLimits(i) ==
    /\ evals[i].mode_after = evals[i].mode_before
    /\ LimitsOf(evals[i].params_after) = LimitsOf(evals[i].params_before)

EvalLeavesCountAndClock(i) ==
    /\ StoredActionCount(evals[i].params_after) <= StoredActionCount(evals[i].params_before)
    /\ StoredLastActionAt(evals[i].params_after) = StoredLastActionAt(evals[i].params_before)

\* C22: whenever a remediation action was executed less than cooldown_minutes
\* ago, an evaluation with auto-remediation enabled and an active alert mapped
\* to an action reports outcome cooldown, does not change mode or risk limits,
\* and does not advance the action count or the last-action time.
C22_CooldownSuppressesAction ==
    \A i \in DOMAIN evals :
        ( /\ EvalWouldAct(i)
          /\ \E j \in 1..(i - 1) :
                 /\ ExecutedEval(j)
                 /\ evals[i].now - evals[j].now
                        < evals[i].status.cooldown_minutes * 60 * 1000 )
        => /\ evals[i].status.outcome = "cooldown"
           /\ EvalLeavesModeAndLimits(i)
           /\ EvalLeavesCountAndClock(i)

\* The actions executed within the 60 minutes that end with evaluation i.
ExecutedWithinHour(i) ==
    {j \in 1..i : ExecutedEval(j) /\ evals[i].now - evals[j].now < 3600 * 1000}

\* C23: within any 60-minute span at most auto_remediation_max_actions_per_hour
\* remediation actions are executed for a tenant; an evaluation arriving when
\* that count is reached reports outcome rate_limited and changes neither mode
\* nor risk limits.
C23_AtMostMaxActionsPerHour ==
    \A i \in DOMAIN evals :
        /\ Cardinality(ExecutedWithinHour(i)) <= evals[i].status.max_actions_per_hour
        /\ ( /\ EvalWouldAct(i)
             /\ Cardinality(ExecutedWithinHour(i) \ {i})
                    >= evals[i].status.max_actions_per_hour )
           => /\ evals[i].status.outcome = "rate_limited"
              /\ EvalLeavesModeAndLimits(i)

\* C24: an auto-remediation evaluation changes the tenant's mode only when
\* the policy is enabled, the selected action is pause_autonomous, the
\* evaluation is neither rate-limited nor in cooldown, and the current mode is
\* autonomous, and the new mode is then confirmation; when the mode is not
\* autonomous the outcome is noop and neither the hourly action count nor the
\* cooldown clock advances.
C24_ModeChangesOnlyByPause ==
    \A i \in DOMAIN evals :
        LET e == evals[i]
            pausing == /\ e.status.enabled
                       /\ e.status.planned_action = "pause_autonomous"
                       /\ e.status.outcome \notin {"rate_limited", "cooldown"}
        IN /\ e.mode_after /= e.mode_before =>
                  /\ pausing
                  /\ e.mode_before = "autonomous"
                  /\ e.mode_after = "confirmation"
           /\ (pausing /\ e.mode_before = "autonomous") => e.mode_after = "confirmation"
           /\ (pausing /\ e.mode_before /= "autonomous") =>
                  /\ e.status.outcome = "noop"
                  /\ EvalLeavesCountAndClock(i)

\* C24 witness: a tenant in autonomous mode has been paused by one evaluation,
\* and a later evaluation that selected pause_autonomous again, outside the
\* cooldown, has ended as a noop.
C24_Witness ==
    \E i \in DOMAIN evals, j \in DOMAIN evals :
        /\ i < j
        /\ evals[i].mode_before = "autonomous"
        /\ evals[i].mode_after = "confirmation"
        /\ evals[i].status.outcome = "executed"
        /\ evals[j].status.planned_action = "pause_autonomous"
        /\ evals[j].status.outcome = "noop"

\* The parts of the tenant's state whose values before and after the audit
\* details carry.
DetailsStateKinds(details) ==
    (IF {"mode_before", "mode_after"} \subseteq DOMAIN details THEN {"mode"} ELSE {})
    \cup (IF {"risk_params_before", "risk_params_after"} \subseteq DOMAIN details
          THEN {"risk_params"} ELSE {})

\* C25: every auto-remediation evaluation whose outcome is executed writes
\* exactly one execution_auto_remediation_executed audit row, in the same
\* commit as the mode or risk-parameter change, recording the action and the
\* state before and after; evaluations with any other outcome write no such
\* row.
C25_ExecutedIsAuditedWithState ==
    \A i \in DOMAIN evals :
        LET e == evals[i]
        IN IF e.status.outcome = "executed"
           THEN /\ Cardinality(e.audit_rows) = 1
                /\ \A r \in e.audit_rows :
                       /\ auditLog[r].event_type = "execution_auto_remediation_executed"
                       /\ auditLog[r].details.action = e.status.planned_action
                       /\ e.mode_after /= e.mode_before =>
                              /\ "mode" \in DetailsStateKinds(auditLog[r].details)
                              /\ auditLog[r].details.mode_before = e.mode_before
                              /\ auditLog[r].details.mode_after = e.mode_after
                       /\ LimitsOf(e.params_after) /= LimitsOf(e.params_before) =>
                              "risk_params" \in DetailsStateKinds(auditLog[r].details)
           ELSE e.audit_rows = {}

\* The fill rows of the window that belong to a trade.
FillRowsInWindow(e, t) ==
    {f \in DOMAIN fills :
        /\ fills[f].client = e.client
        /\ fills[f].trade = t
        /\ InWindow(fills[f].fill_timestamp, e.request.from_ts, e.request.to_ts)}

TradesInWindow(e) ==
    {t \in DOMAIN trades :
        /\ trades[t].client = e.client
        /\ InWindow(trades[t].timestamp, e.request.from_ts, e.request.to_ts)}

\* C30: in execution-quality metrics with backfill enabled, a trade is counted
\* as one synthetic fill with 0 slippage and 0 latency iff it has no fill row
\* in the window, its status is filled, partially_filled or completed, its
\* fill_price is known and its qty is positive; with backfill disabled no
\* trade is backfilled and a window without fill rows reports zero fills and
\* null average slippage.
C30_BackfillCountsSyntheticFills ==
    \A i \in DOMAIN evals :
        LET e == evals[i]
            m == e.metrics
            rows == UNION {FillRowsInWindow(e, t) : t \in TradesInWindow(e)}
            priced == {f \in rows : ~IsNoPrice(fills[f].slippage_bps)}
            filled == {t \in TradesInWindow(e) : FillRowsInWindow(e, t) /= {}}
            synthetic == Cardinality(m.backfilled_trade_ids)
        IN /\ m.backfilled_trade_ids \subseteq TradesInWindow(e)
           /\ e.request.backfill_missing =>
                  \A t \in TradesInWindow(e) :
                      t \in m.backfilled_trade_ids <=>
                          /\ FillRowsInWindow(e, t) = {}
                          /\ trades[t].status \in {"filled", "partially_filled", "completed"}
                          /\ ~IsNoPrice(trades[t].fill_price)
                          /\ trades[t].qty > 0
           /\ m.fill_events = Cardinality(rows) + synthetic
           /\ m.backfilled_trades = synthetic
           /\ m.trades_with_fills = Cardinality(filled) + synthetic
           /\ Cardinality(priced) + synthetic > 0 =>
                  /\ ~IsNoPrice(m.avg_slippage_bps)
                  /\ m.avg_slippage_bps.n * SumSlippage(priced).d
                         * (Cardinality(priced) + synthetic)
                     = SumSlippage(priced).n * m.avg_slippage_bps.d
           /\ Cardinality(filled) + synthetic > 0 =>
                  /\ ~IsNoPrice(m.avg_first_fill_latency_ms)
                  /\ m.avg_first_fill_latency_ms.n * (Cardinality(filled) + synthetic)
                     = SumFirstFillLatency(filled, rows) * m.avg_first_fill_latency_ms.d
           /\ ~e.request.backfill_missing =>
                  /\ m.backfilled_trade_ids = {}
                  /\ rows = {} => (m.fill_events = 0 /\ IsNoPrice(m.avg_slippage_bps))

\* C30 witness: with backfill enabled and the window ending before the fill
\* rows of trade 6, trades 2 and 6 have been counted as synthetic fills next
\* to the one fill row of trade 1, with a mean slippage of 20 / 3.
C30_Witness ==
    \E i \in DOMAIN evals :
        /\ evals[i].request.backfill_missing
        /\ evals[i].metrics.backfilled_trade_ids = {2, 6}
        /\ evals[i].metrics.fill_events = 3
        /\ evals[i].metrics.avg_slippage_bps.n * 3 = 20 * evals[i].metrics.avg_slippage_bps.d

-----------------------------------------------------------------------------
(* Claims about the estimated P&L curve                                    *)

\* The points of the curve returned by the call that sit at the center strike.
CalledCenterPoints ==
    {k \in DOMAIN pureCall.out.pnl_curve :
        pureCall.out.pnl_curve[k].underlying = pureCall.args.center_strike}

\* C31: for an iron_fly, the point of the estimated P&L curve at underlying =
\* center strike is premium x multiplier x contracts (center 5000, wings
\* 4950/5050, premium 3.2, multiplier 50, 1 contract: 160.00).
C31_IronFlyCenterPointIsPremium ==
    ( /\ Called("_estimate_pnl_curve")
      /\ pureCall.args.template.strategy_type = "iron_fly"
      /\ pureCall.out.ok )
    => \A k \in CalledCenterPoints :
          pureCall.out.pnl_curve[k].pnl =
              pureCall.args.estimated_net_premium
              * ContractMultiplier(pureCall.args.multiplier)
              * pureCall.out.contracts

\* C31 witness: the iron fly 4950/5000/5050 with premium 3.20, multiplier 50
\* and one contract, priced at 5000, shows 160.00 at 5000.
C31_Witness ==
    /\ Called("_estimate_pnl_curve")
    /\ pureCall.args.template.strategy_type = "iron_fly"
    /\ pureCall.args.lower_strike = 495000
    /\ pureCall.args.upper_strike = 505000
    /\ pureCall.args.estimated_net_premium = 320
    /\ pureCall.args.underlying_price = 500000
    /\ pureCall.out.ok
    /\ pureCall.out.contracts = 1
    /\ \E k \in CalledCenterPoints : pureCall.out.pnl_curve[k].pnl = 16000

\* C39: for every successfully resolved strategy, no point of the estimated
\* P&L curve shows a loss larger than the reported estimated max risk:
\* pnl >= -(maxLossPer1 x contracts) at every sampled underlying.
C39_CurveLossWithinMaxRisk ==
    ( /\ Called("_estimate_pnl_curve")
      /\ pureCall.out.ok )
    => \A k \in DOMAIN pureCall.out.pnl_curve :
          pureCall.out.pnl_curve[k].pnl >=
              0 - (pureCall.out.max_loss_per_1 * pureCall.out.contracts)

-----------------------------------------------------------------------------
(* Claims about the conservative preset                                    *)

\* The limits an order is checked against.
RiskLimitKeys == {"delta_threshold", "max_size", "max_loss", "max_open_positions"}

\* C38: an executed apply_conservative never loosens a risk limit: whatever
\* the tenant's parameters before the action, delta_threshold, max_size,
\* max_loss and max_open_positions after it are each less than or equal to
\* their value before.
C38_ConservativeNeverLoosens ==
    \A i \in DOMAIN evals :
        ( /\ ExecutedEval(i)
          /\ evals[i].status.planned_action = "apply_conservative" )
        => \A k \in RiskLimitKeys :
               LimitsOf(evals[i].params_after)[k] <= LimitsOf(evals[i].params_before)[k]

-----------------------------------------------------------------------------
(* Claims about the order of the pipeline on every submission              *)

\* C32: every order submission to the broker made on behalf of a client
\* (submit_order or submit_combo_order) is preceded, within the same request,
\* by an emergency-halt check that observed halted = false and by a passed
\* policy validation, and is followed by a Trade row; this includes the
\* submissions the decision backend triggers through its submit_order tool
\* call in autonomous mode.
C32_SubmissionAfterHaltCheckAndPolicy ==
    \A i \in DOMAIN runs :
        Submitted(runs[i]) =>
            /\ runs[i].haltSeen /= <<>>
            /\ ~runs[i].haltSeen[Len(runs[i].haltSeen)].halted
            /\ runs[i].checks /= <<>>
            /\ runs[i].checks[1] = "StrategyRegistry"
            /\ Len(runs[i].checks) > 1
            /\ (runs[i].pc = "done" /\ runs[i].error = "") => "Trade" \in runs[i].rows

-----------------------------------------------------------------------------
(* Claims about a halt set while a run is under way                        *)

\* A set(halted = True) was issued and has returned, its write done, after
\* the halt check of the run, and it is still the state of the controller.
HaltReturnedSinceCheck(r) ==
    /\ r.haltSeen /= <<>>
    /\ lastSet.ctrl = AppCtrl
    /\ lastSet.state.halted
    /\ lastSet.writeOk
    /\ lastSet.state.updated_at > r.haltSeen[Len(r.haltSeen)].at
    /\ haltPc[AppCtrl] = "idle"
    /\ haltState[AppCtrl] = lastSet.state

\* C33: no order reaches the broker after a halt has taken effect: if
\* set(halted = True) returns while a pipeline run is between its halt check
\* and its broker submission, that run does not submit the order.
C33_NoSubmissionAfterHaltReturned ==
    [][\A i \in DOMAIN runs :
          (~Submitted(runs[i]) /\ Submitted(runs'[i])) => ~HaltReturnedSinceCheck(runs[i])]_vars

-----------------------------------------------------------------------------
(* Claims about concurrent requests of one client                          *)

\* The run has passed both validators and its order is at the broker, while
\* its Trade row is not committed yet.
AwaitingTrade(r) ==
    /\ r.pc = "record"
    /\ r.checks = <<"StrategyRegistry", "RiskGovernor">>
    /\ "submit_order" \in r.ops
    /\ "Trade" \notin r.rows

\* C34: the pipeline holds no per-client execution lock: a run is never held
\* back by another run of its client, at the checks or at the submission, so
\* two concurrent executions for the same client can both pass the
\* MAX_OPEN_POSITIONS and MAX_DAILY_LOSS checks against the same pre-trade
\* snapshot, and both submit their orders, before either commits its Trade.
C34_NoPerClientExecutionLock ==
    \A i \in DOMAIN runs :
        /\ (runs[i].kind \in SingleLegKinds /\ runs[i].pc = "validate") =>
               \A snap \in RaceSnapshots : ENABLED ExecuteTradeValidate(i, snap)
        /\ (runs[i].kind \in SingleLegKinds /\ runs[i].pc = "submit") =>
               /\ \A res \in RaceOrderResults : ENABLED ExecuteTradeSubmit(i, res)
               /\ runs[i].seen.daily_pnl = SumPnl(InitTrades, runs[i].client)
               /\ runs[i].seen.open_legs < runs[i].params.max_open_positions

\* C34 witness: two approvals of client A, of different proposals, have both
\* passed the checks against 19 open legs and the same daily P&L, both orders
\* are at the broker, and no Trade row has been added.
C34_Witness ==
    \E i \in DOMAIN runs, j \in DOMAIN runs :
        /\ i /= j
        /\ runs[i].client = runs[j].client
        /\ runs[i].target /= runs[j].target
        /\ AwaitingTrade(runs[i])
        /\ AwaitingTrade(runs[j])
        /\ runs[i].seen = runs[j].seen
        /\ runs[i].seen.open_legs = 19
        /\ trades = InitTrades

\* The approvals of a proposal that sent an order to the broker.
SubmittedApprovals(pid) ==
    {i \in DOMAIN runs : /\ runs[i].kind = "approve"
                         /\ runs[i].target = pid
                         /\ "submit_order" \in runs[i].ops}

\* The approvals of a proposal that added a Trade row.
RecordedApprovals(pid) ==
    {i \in DOMAIN runs : /\ runs[i].kind = "approve"
                         /\ runs[i].target = pid
                         /\ "Trade" \in runs[i].rows}

\* C35: a proposal is executed at most once: over any interleaving of
\* approve_proposal calls for the same pending proposal, at most one order is
\* submitted to the broker and at most one Trade is created for it.
C35_ProposalExecutedAtMostOnce ==
    \A pid \in DOMAIN proposals :
        /\ Cardinality(SubmittedApprovals(pid)) <= 1
        /\ Cardinality(RecordedApprovals(pid)) <= 1

\* C36: a resolved proposal is never re-resolved: approve_proposal and
\* reject_proposal change a proposal's status only when it is pending, so an
\* approved proposal stays approved and a rejected one stays rejected.
C36_ResolvedProposalStaysResolved ==
    [][\A pid \in DOMAIN proposals :
          proposals[pid].status /= "pending" =>
              proposals'[pid].status = proposals[pid].status]_vars

-----------------------------------------------------------------------------
(* Claims about the mode the agent consults                                *)

\* C37: after any sequence of set_mode calls and auto-remediation
\* evaluations, the mode the agent consults to decide whether chat executes
\* trades without confirmation (the in-memory context mode) equals the
\* persisted tenant mode; in particular, after an executed pause_autonomous
\* no later chat call executes a trade until set_mode(autonomous) is called
\* again.
C37_ContextModeEqualsTenantMode ==
    \A c \in Clients : agentMode[c].context = agentMode[c].row

\* The request addresses a proposal or a template of another client.
ForeignRun(r) ==
    \/ /\ r.kind \in {"approve", "reject"}
       /\ r.target \in DOMAIN proposals
       /\ proposals[r.target].client /= r.client
    \/ /\ r.kind \in {"template", "get_template", "resolve_template"}
       /\ r.target \in DOMAIN StrategyTemplates
       /\ StrategyTemplates[r.target].client /= r.client

\* The ingest call addresses a trade of another client.
ForeignIngest(c) == c.trade \in DOMAIN trades /\ trades[c.trade].client /= c.client

NotFoundErrors == {"Proposal not found", "Strategy template not found"}

\* The stored rows of a client, each with its id.
RowsOf(c) ==
    [proposals |-> {<<k, proposals[k]>> : k \in {j \in DOMAIN proposals : proposals[j].client = c}},
     trades |-> {<<k, trades[k]>> : k \in {j \in DOMAIN trades : trades[j].client = c}},
     fills |-> {<<k, fills[k]>> : k \in {j \in DOMAIN fills : fills[j].client = c}},
     executions |-> {<<k, executions[k]>> : k \in {j \in DOMAIN executions : executions[j].client = c}},
     auditLog |-> {<<k, auditLog[k]>> : k \in {j \in DOMAIN auditLog : auditLog[j].client = c}}]

\* The clients on whose behalf the step was taken: the callers of the
\* requests that arrived or moved on in it.
StepCallers ==
    {runs'[i].client : i \in {j \in DOMAIN runs' : j \notin DOMAIN runs \/ runs'[j] /= runs[j]}}
    \cup {ing'[i].client : i \in {j \in DOMAIN ing' : j \notin DOMAIN ing \/ ing'[j] /= ing[j]}}

\* A request for a row of another client reaches neither the broker nor the
\* row: it ends as not found, or - an execute that met the halt - with the
\* error of the halt gate, which comes before the lookup.
ForeignRequestsRefused ==
    /\ \A i \in DOMAIN runs : ForeignRun(runs[i]) =>
           /\ runs[i].ops = {}
           /\ runs[i].tradeId = 0
           /\ IF runs[i].pc = "done"
              THEN \/ runs[i].error \in NotFoundErrors
                   \/ /\ runs[i].kind = "template"
                      /\ runs[i].sawHalted
                      /\ runs[i].error = HaltedError
              ELSE runs[i].kind = "template" /\ runs[i].pc \in {"halt", "validate"}
    /\ \A i \in DOMAIN ing : ForeignIngest(ing[i]) =>
           ing[i].pc = "done" /\ ing[i].outcome = "not_found"

\* C40 (as stated): get/resolve/execute of a strategy template,
\* approve_proposal, reject_proposal and ingest_trade_fill given the id of
\* another client's template, proposal or trade fail as not found.
C40_ForeignIdFailsAsNotFound ==
    /\ \A i \in DOMAIN runs : ForeignRun(runs[i]) /\ runs[i].pc = "done" =>
           runs[i].error \in NotFoundErrors
    /\ \A i \in DOMAIN ing : ForeignIngest(ing[i]) => ing[i].outcome = "not_found"

\* C40 (amended): operations addressed by row id act only on rows owned by
\* the calling client. A step taken for one client leaves every stored row
\* of every other client unchanged, and a request given another client's
\* template, proposal or trade id calls no broker operation and fails as not
\* found - except that execute of a template while trading is halted fails
\* with the halted error, raised before the template is looked up.
C40_ForeignIdNeverReachesRow ==
    [][ /\ \A c \in Clients : c \notin StepCallers => RowsOf(c)' = RowsOf(c)
        /\ ForeignRequestsRefused' ]_vars

\* Client B was refused a proposal of client A as not found, an ingest for
\* the trade of the other client ended as not found, and an ingest for the
\* caller's own trade stored its fill.
C40_Witness ==
    /\ \E i \in DOMAIN runs :
           /\ ForeignRun(runs[i])
           /\ runs[i].pc = "done"
           /\ runs[i].error = "Proposal not found"
    /\ \E i \in DOMAIN ing : ForeignIngest(ing[i]) /\ ing[i].outcome = "not_found"
    /\ \E i \in DOMAIN ing : ing[i].outcome = "created"
    /\ proposals = IsolationProposals
====
